---- MODULE Spec2Model ----
(***************************************************************************)
(* A model of shermanpch/ai-coach:                                         *)
(*   - the feasy decorators  (src/src/feasy/decorator.py),                 *)
(*   - the Sparkle engine    (src/src/feasy/sparkle.py),                   *)
(*   - create_student_features and nest (src/src/utils.py),                *)
(*   - the chatbot: metadata extractor, data loader, vector store and the  *)
(*     chainlit handlers (src/chatbot),                                    *)
(*   - the retry loops of the scrapers (src/data/scripts/scraper).         *)
(* The specifications share the variables: Spec (a Sparkle object from     *)
(* construction to the return of to_pandas), SpecRegistry (the decorator   *)
(* factories), SpecAgg and SpecPanel (one call of create_student_features),*)
(* SpecCalls (repeated and interleaved calls), SpecExtract, SpecLoader,    *)
(* SpecStore, SpecApp, SpecNest and SpecRetry.                             *)
(***************************************************************************)
EXTENDS Integers, Sequences, FiniteSets, TLC

VARIABLES
    funcs,      \* Sparkle.funcs: the tuple of function groups
    data,       \* Sparkle.data: the dataset given to source()
    pc,         \* where the Sparkle object is: "new", "sourced", "mapping", "done"
    pos,        \* records the map iterator of to_matrix has taken from data
    mapped,     \* the tuples _grouped_extractor has returned, one per record
    log,        \* every record fetch <<k,0,0>> and function call <<k,g,f>>, in order
    result,     \* what to_pandas returned or raised
    factory,    \* the last multiple(params) call: raised, or the decorator's params
    fn,         \* the function object the last decoration produced
    deco,       \* the arguments of the last decoration
    called,     \* the last call of fn on a record
    frame,      \* the DataFrame handed to create_student_features
    args,       \* its other arguments
    agg,        \* what create_student_features returned or raised
    again,      \* what a second call with the same arguments returned or raised
    sparkles,   \* Sparkle objects in use by several callers: funcs and data
    callers,    \* each caller: its object, its dataset, where it is, its returns
    json_record,    \* the record handed to extract_metadata_from_json
    metadata,       \* what extract_metadata_from_json returned
    markdown_docs,  \* the documents DirectoryLoader.load() returned, in order
    id_mapping,     \* the mapping file of lookup_university_by_id: id -> index
    processed,      \* what load_university_documents returned, and its counts
    persist_dir,    \* config.CHROMA_PERSIST_DIR on disk: absent, or its documents
    vectorstore,    \* the Chroma object the program holds
    returned,       \* the last vector store call and what it returned or raised
    db_vectorstore, \* app.db_vectorstore
    vectorstore_initialized,    \* app._vectorstore_initialized
    handlers,       \* the running chainlit handlers, each at an await point
    served,         \* the record of the process: loads, messages, retrievals
    nest_df,        \* the caller's DataFrame handed to nest
    nest_args,      \* the other arguments of nest
    nest_out,       \* what nest returned or raised
    retry           \* a retry loop of the scrapers: its attempts and its result

vars == <<funcs, data, pc, pos, mapped, log, result,
          factory, fn, deco, called, frame, args, agg, again, sparkles, callers,
          json_record, metadata, markdown_docs, id_mapping, processed,
          persist_dir, vectorstore, returned,
          db_vectorstore, vectorstore_initialized, handlers, served,
          nest_df, nest_args, nest_out, retry>>

sparkleVars == <<funcs, data, pc, pos, mapped, log, result>>
registryVars == <<factory, fn, deco, called>>
aggVars == <<frame, args, agg, again>>
callVars == <<sparkles, callers>>
coreVars == <<sparkleVars, registryVars, aggVars, callVars>>
extractVars == <<json_record, metadata>>
loaderVars == <<markdown_docs, id_mapping, processed>>
storeVars == <<persist_dir, vectorstore, returned>>
appVars == <<db_vectorstore, vectorstore_initialized, handlers, served>>
nestVars == <<nest_df, nest_args, nest_out>>
retryVars == <<retry>>
serviceVars == <<extractVars, loaderVars, storeVars, appVars, nestVars, retryVars>>

----------------------------------------------------------------------------
(* Bounds. *)

MaxGroups == 2      \* groups handed to Sparkle(...)
MaxFuncs == 2       \* feature functions over all groups of one Sparkle
MaxRecords == 2     \* records of a dataset
MaxParams == 2      \* entries of a params list handed to multiple
MaxWrap == 2        \* decorations stacked on one function

----------------------------------------------------------------------------
(* Python values.  A cell value is a record [k, v]: an int, a float (v in  *)
(* tenths: 37 is 3.7), a numeral string (str(v)), a float string, a text   *)
(* that is no number, None/NaN, or a nested list.                          *)

IntV(n) == [k |-> "int", v |-> n]
FloatV(t) == [k |-> "float", v |-> t]
NumStr(n) == [k |-> "numstr", v |-> n]
FltStr(t) == [k |-> "fltstr", v |-> t]
TextV(i) == [k |-> "text", v |-> i]
NoneV == [k |-> "none", v |-> 0]
ListV == [k |-> "list", v |-> 0]

(* What a call returns: it raised (ok = FALSE), or an object: items        *)
(* wrapped in nest list layers (nest = 0: the scalar items[1]; nest = 1:   *)
(* the flat list items; nest = 2: [items]).                                *)
Raised == [ok |-> FALSE, nest |-> 0, items |-> <<>>]
Scalar(x) == [ok |-> TRUE, nest |-> 0, items |-> <<x>>]
List(xs) == [ok |-> TRUE, nest |-> 1, items |-> xs]

(* Objects that may stand in a params entry. *)
Atom(c, s) == [cls |-> c, val |-> s]
Str(s) == Atom("str", s)
Type(s) == Atom("type", s)
NoAtom == Atom("NoneType", "None")

(* A params entry: its class, its length, and (for a length of 2) its two  *)
(* elements.                                                                *)
Entry(c, n, a, b) == [cls |-> c, len |-> n, name |-> a, dtype |-> b]
Pair(name, dtype) == Entry("tuple", 2, Str(name), Type(dtype))

----------------------------------------------------------------------------
(* decorator.py *)

(* A faulty variant of EntryError: the dtype of an entry is not checked. *)
EntryErrorWithoutDtype(p) ==
    IF ~(p.cls \in {"tuple", "list"}) \/ p.len # 2 THEN "pair"
    ELSE IF p.name.cls # "str" THEN "name"
    ELSE ""

(* The checks of one entry, in the code's order: "" when it passes. *)
EntryError(p) ==
    IF ~(p.cls \in {"tuple", "list"}) \/ p.len # 2 THEN "pair"
    ELSE IF p.name.cls # "str" THEN "name"
    ELSE IF ~(p.dtype.cls \in {"type", "str"}) THEN "dtype"
    ELSE ""

(* multiple(params): the validation loop raises at the first bad entry;    *)
(* otherwise the decorator, a closure over params, is returned.            *)
multiple(params) ==
    LET bad == {i \in 1..Len(params) : EntryError(params[i]) # ""}
    IN  IF bad # {}
        THEN [raised |-> TRUE,
              at |-> CHOOSE i \in bad : \A j \in bad : i <= j,
              params |-> params]
        ELSE [raised |-> FALSE, at |-> 0, params |-> params]

(* A function object: __name__, the attributes name and schema of its      *)
(* __dict__ (hasName/hasSchema: whether set), its body and the number of   *)
(* [..] layers single has put around the body's return value.              *)
Function(ident, body) ==
    [ident |-> ident, hasName |-> FALSE, name |-> "",
     hasSchema |-> FALSE, schema |-> <<>>, body |-> body, wrap |-> 0]

(* The decorator multiple returns: f.name = f.__name__; f.schema = params. *)
decorator(params, f) ==
    [f EXCEPT !.hasName = TRUE, !.name = f.ident,
              !.hasSchema = TRUE, !.schema = params]

(* functools.wraps(f): __name__ is copied and wrapper.__dict__ is updated  *)
(* with f.__dict__, so every attribute f carries overwrites the wrapper's. *)
wraps(f, w) ==
    [w EXCEPT !.ident = f.ident,
              !.hasName = w.hasName \/ f.hasName,
              !.name = IF f.hasName THEN f.name ELSE w.name,
              !.hasSchema = w.hasSchema \/ f.hasSchema,
              !.schema = IF f.hasSchema THEN f.schema ELSE w.schema]

(* The decorator single(name, dtype) returns, applied to f: _wrapped_function *)
(* is decorated by multiple([(name, dtype)]), then by wraps(f), then its   *)
(* name is set to f.__name__.  raised: multiple rejected (name, dtype).    *)
single(name, dtype, f) ==
    LET m == multiple(<<Entry("tuple", 2, name, dtype)>>)
        w0 == [Function("_wrapped_function", f.body) EXCEPT !.wrap = f.wrap + 1]
        w1 == decorator(m.params, w0)
        w2 == wraps(f, w1)
    IN  IF m.raised THEN [raised |-> TRUE, fn |-> f]
        ELSE [raised |-> FALSE, fn |-> [w2 EXCEPT !.hasName = TRUE, !.name = f.ident]]

----------------------------------------------------------------------------
(* The feature functions a Sparkle is built from: domain code decorated    *)
(* with single or multiple.  A record of the dataset is 1 or 2; on record  *)
(* 1 every function returns what its schema declares, on record 2 some do  *)
(* not: get_bc returns one value too few, get_d one too many, get_g a      *)
(* non-integral float for an int column, get_t a text for a float column,  *)
(* and get_h raises.                                                       *)

Records == {1, 2}

Body(body, r) ==
    CASE body = "get_a" -> Scalar(FloatV(10 * r + 5))
      [] body = "get_bc" -> IF r = 1 THEN List(<<IntV(1), TextV(1)>>)
                            ELSE List(<<IntV(2)>>)
      [] body = "get_d" -> IF r = 1 THEN List(<<IntV(1)>>)
                           ELSE List(<<IntV(2), IntV(9)>>)
      [] body = "get_g" -> IF r = 1 THEN Scalar(IntV(1)) ELSE Scalar(FloatV(37))
      [] body = "get_t" -> IF r = 1 THEN Scalar(FloatV(10)) ELSE Scalar(TextV(7))
      [] body = "get_h" -> IF r = 1 THEN Scalar(IntV(1)) ELSE Raised
      [] OTHER -> Scalar(IntV(r))

(* Calling a function object: its body's value inside the [..] layers of   *)
(* the single wrappers around it (return [f(row)]); an exception passes    *)
(* through them.                                                           *)
Call(f, r) ==
    LET o == Body(f.body, r)
    IN  IF o.ok THEN [o EXCEPT !.nest = o.nest + f.wrap] ELSE o

get_a == single(Str("a"), Type("float"), Function("get_a", "get_a")).fn
get_bc == decorator(<<Pair("b", "int"), Pair("c", "str")>>, Function("get_bc", "get_bc"))
get_d == decorator(<<Pair("d", "int")>>, Function("get_d", "get_d"))
get_g == single(Str("g"), Type("int"), Function("get_g", "get_g")).fn
get_t == single(Str("t"), Type("float"), Function("get_t", "get_t")).fn
get_h == single(Str("h"), Type("int"), Function("get_h", "get_h")).fn

Catalogue == {get_a, get_bc, get_d, get_g, get_t, get_h}

----------------------------------------------------------------------------
(* sparkle.py: _extract and _extractor *)

(* result.extend(function_output): a flat list adds its items, a list of   *)
(* lists adds one cell that is a list.                                     *)
Extend(o) == IF o.nest = 1 THEN o.items ELSE <<ListV>>

(* A faulty variant of ExtractFrom: an exception of a feature function is  *)
(* swallowed and the function's columns are left out.                      *)
RECURSIVE ExtractFromSwallowing(_, _, _, _, _)
ExtractFromSwallowing(proto, fs, i, row, calls) ==
    IF i > Len(fs) THEN [ok |-> TRUE, row |-> row, calls |-> calls]
    ELSE LET o == Call(fs[i], proto)
         IN  ExtractFromSwallowing(proto, fs, i + 1,
                                   IF ~o.ok \/ o.nest = 0 THEN row ELSE row \o Extend(o),
                                   Append(calls, i))

(* The loop of _extract from function i on: calls lists the functions      *)
(* called, in order.  A raising function, or an output extend cannot       *)
(* iterate (a scalar), ends the loop with the exception.                   *)
RECURSIVE ExtractFrom(_, _, _, _, _)
ExtractFrom(proto, fs, i, row, calls) ==
    IF i > Len(fs) THEN [ok |-> TRUE, row |-> row, calls |-> calls]
    ELSE LET o == Call(fs[i], proto)
         IN  IF ~o.ok \/ o.nest = 0
             THEN [ok |-> FALSE, row |-> row, calls |-> Append(calls, i)]
             ELSE ExtractFrom(proto, fs, i + 1, row \o Extend(o), Append(calls, i))

_extract(proto, fs) == ExtractFrom(proto, fs, 1, <<>>, <<>>)

(* A faulty variant of _grouped_extractor: one pass per group, the last group      *)
(* first.                                                                  *)
_grouped_extractor_reversed(proto, funcs_list) ==
    LET n == Len(funcs_list)
        e(g) == _extract(proto, funcs_list[g])
        rec(g) == [i \in 1..Len(e(g).calls) |-> <<g, e(g).calls[i]>>]
        down[g \in 0..n] == IF g = 0 THEN <<>> ELSE rec(g) \o down[g - 1]
    IN  [ok |-> \A g \in 1..n : e(g).ok,
         rows |-> [g \in 1..n |-> e(g).row],
         calls |-> down[n]]

(* _grouped_extractor: tuple(_extract(proto, g) for g in funcs_list), the  *)
(* groups in order; calls lists the <<g, f>> called.                       *)
RECURSIVE GroupsFrom(_, _, _, _, _)
GroupsFrom(proto, funcs_list, g, rows, calls) ==
    IF g > Len(funcs_list) THEN [ok |-> TRUE, rows |-> rows, calls |-> calls]
    ELSE LET e == _extract(proto, funcs_list[g])
             cs == calls \o [i \in 1..Len(e.calls) |-> <<g, e.calls[i]>>]
         IN  IF ~e.ok THEN [ok |-> FALSE, rows |-> rows, calls |-> cs]
             ELSE GroupsFrom(proto, funcs_list, g + 1, Append(rows, e.row), cs)

_grouped_extractor(proto, funcs_list) == GroupsFrom(proto, funcs_list, 1, <<>>, <<>>)

----------------------------------------------------------------------------
(* sparkle.py: _matrix_to_df, with the pandas calls it makes *)

Max(S) == IF S = {} THEN 0 ELSE CHOOSE x \in S : \A y \in S : y <= x
Min(S) == CHOOSE x \in S : \A y \in S : x <= y

(* int(x) of a float in tenths: truncation toward zero. *)
Trunc(t) == IF t >= 0 THEN t \div 10 ELSE -((-t) \div 10)

(* One cell under astype(dtype). *)
Cast(x, dtype) ==
    CASE dtype = "int" ->
            CASE x.k = "int" -> [ok |-> TRUE, v |-> x]
              [] x.k = "float" -> [ok |-> TRUE, v |-> IntV(Trunc(x.v))]
              [] x.k = "numstr" -> [ok |-> TRUE, v |-> IntV(x.v)]
              [] OTHER -> [ok |-> FALSE, v |-> x]
      [] dtype = "float" ->
            CASE x.k = "int" -> [ok |-> TRUE, v |-> FloatV(10 * x.v)]
              [] x.k = "float" -> [ok |-> TRUE, v |-> x]
              [] x.k = "numstr" -> [ok |-> TRUE, v |-> FloatV(10 * x.v)]
              [] x.k = "fltstr" -> [ok |-> TRUE, v |-> FloatV(x.v)]
              [] x.k = "none" -> [ok |-> TRUE, v |-> x]
              [] OTHER -> [ok |-> FALSE, v |-> x]
      [] dtype = "str" ->
            CASE x.k = "int" -> [ok |-> TRUE, v |-> NumStr(x.v)]
              [] x.k = "float" -> [ok |-> TRUE, v |-> FltStr(x.v)]
              [] x.k \in {"none", "list"} -> [ok |-> TRUE, v |-> TextV(0)]
              [] OTHER -> [ok |-> TRUE, v |-> x]
      [] OTHER -> [ok |-> TRUE, v |-> x]

NoTable == [cols |-> <<>>, types |-> <<>>, rows |-> <<>>]

(* pd.DataFrame(matrix, columns=column_names): the rows are laid out in an *)
(* object array as wide as the longest row, shorter rows padded with None; *)
(* a width other than the number of names raises ValueError.               *)
DataFrame(matrix, column_names) ==
    LET width == Max({Len(matrix[k]) : k \in 1..Len(matrix)})
        pad(row) == [j \in 1..width |-> IF j <= Len(row) THEN row[j] ELSE NoneV]
    IN  IF width # Len(column_names)
        THEN [ok |-> FALSE, err |-> "ValueError", df |-> NoTable]
        ELSE [ok |-> TRUE, err |-> "",
              df |-> [cols |-> column_names, types |-> <<>>,
                      rows |-> [k \in 1..Len(matrix) |-> pad(matrix[k])]]]

(* dict(zip(column_names, column_types))[name]: the type of the last       *)
(* column of that name.                                                    *)
TypeMapping(column_names, column_types, name) ==
    column_types[Max({j \in 1..Len(column_names) : column_names[j] = name})]

(* df.astype(type_mapping): every cell is cast to its column's type; one   *)
(* cell that cannot be cast raises.                                        *)
astype(df, column_types) ==
    LET ty(j) == TypeMapping(df.cols, column_types, df.cols[j])
        bad == \E k \in 1..Len(df.rows) : \E j \in 1..Len(df.cols) :
                   ~Cast(df.rows[k][j], ty(j)).ok
    IN  IF bad THEN [ok |-> FALSE, err |-> "CastError", df |-> NoTable]
        ELSE [ok |-> TRUE, err |-> "",
              df |-> [cols |-> df.cols,
                      types |-> [j \in 1..Len(df.cols) |-> ty(j)],
                      rows |-> [k \in 1..Len(df.rows) |->
                                  [j \in 1..Len(df.cols) |->
                                      Cast(df.rows[k][j], ty(j)).v]]]]

(* chain over map(attrgetter("schema"), funcs): the schemas, concatenated *)
RECURSIVE all_schemas(_)
all_schemas(fs) ==
    IF fs = <<>> THEN <<>> ELSE Head(fs).schema \o all_schemas(Tail(fs))

(* A faulty variant of ColumnNames: the functions' display names (f.name) taken   *)
(* for the column names.                                                   *)
ColumnNamesOfFunctions(fs) == [j \in 1..Len(fs) |-> fs[j].name]

(* The column names _matrix_to_df takes from the schemas. *)
ColumnNames(fs) ==
    LET s == all_schemas(fs) IN [j \in 1..Len(s) |-> s[j].name.val]

ColumnTypes(fs) ==
    LET s == all_schemas(fs) IN [j \in 1..Len(s) |-> s[j].dtype.val]

(* _matrix_to_df: a group without functions gives pd.DataFrame(matrix), a  *)
(* table without columns; the zip of no schema entry cannot be       *)
(* unpacked into names and types.                                          *)
_matrix_to_df(matrix, fs) ==
    IF Len(fs) = 0
    THEN [ok |-> TRUE, err |-> "",
          df |-> [cols |-> <<>>, types |-> <<>>,
                  rows |-> [k \in 1..Len(matrix) |-> <<>>]]]
    ELSE IF all_schemas(fs) = <<>>
    THEN [ok |-> FALSE, err |-> "ValueError", df |-> NoTable]
    ELSE LET d == DataFrame(matrix, ColumnNames(fs))
         IN  IF ~d.ok THEN d ELSE astype(d.df, ColumnTypes(fs))

----------------------------------------------------------------------------
(* sparkle.py: Sparkle *)

(* The tuple of the zip of mapped_results: one matrix per group, rows in  *)
(* the order the records were mapped; nothing at all when no record was. *)
Transpose(rows, n) ==
    IF rows = <<>> THEN <<>>
    ELSE [g \in 1..n |-> [k \in 1..Len(rows) |-> rows[k][g]]]

(* to_pandas after to_matrix: _matrix_to_df over zip(feature_matrix,       *)
(* self.funcs), the first error propagating; one table is returned         *)
(* unwrapped, any other number as the tuple.                               *)
Frames(feature_matrix, fs) ==
    LET n == IF Len(feature_matrix) < Len(fs) THEN Len(feature_matrix) ELSE Len(fs)
        t(g) == _matrix_to_df(feature_matrix[g], fs[g])
        bad == {g \in 1..n : ~t(g).ok}
    IN  IF bad # {}
        THEN [status |-> t(Min(bad)).err,
              shape |-> "none", tables |-> <<>>]
        ELSE [status |-> "ok",
              shape |-> IF n = 1 THEN "table" ELSE "tuple",
              tables |-> [g \in 1..n |-> t(g).df]]

NoResult == [status |-> "", shape |-> "none", tables |-> <<>>]

(* Sparkle.source(data): self.data = data. *)
Source(d) ==
    /\ pc = "new"
    /\ data' = d
    /\ pc' = "sourced"
    /\ UNCHANGED <<funcs, pos, mapped, log, result, registryVars, aggVars, callVars, serviceVars>>

(* One step of map(extractor_function, self.data) inside to_matrix: the    *)
(* next record is taken and _grouped_extractor applied to it.  An          *)
(* exception leaves to_pandas at once.                                     *)
MapStep ==
    /\ pc \in {"sourced", "mapping"}
    /\ pos < Len(data)
    /\ LET k == pos + 1
           e == _grouped_extractor(data[k], funcs)
       IN  /\ pos' = k
           /\ log' = log \o <<<<k, 0, 0>>>>
                         \o [i \in 1..Len(e.calls) |-> <<k, e.calls[i][1], e.calls[i][2]>>]
           /\ IF e.ok
              THEN /\ mapped' = Append(mapped, e.rows)
                   /\ pc' = "mapping"
                   /\ result' = result
              ELSE /\ mapped' = mapped
                   /\ pc' = "done"
                   /\ result' = [status |-> "raised", shape |-> "none", tables |-> <<>>]
    /\ UNCHANGED <<funcs, data, registryVars, aggVars, callVars, serviceVars>>

(* The iterator is exhausted: the zip of mapped_results, the tables, then *)
(* the return of to_pandas.                                                *)
Materialize ==
    /\ pc \in {"sourced", "mapping"}
    /\ pos = Len(data)
    /\ result' = Frames(Transpose(mapped, Len(funcs)), funcs)
    /\ pc' = "done"
    /\ UNCHANGED <<funcs, data, pos, mapped, log, registryVars, aggVars, callVars, serviceVars>>

----------------------------------------------------------------------------
(* The variables of the other two specifications, at rest. *)

NoFactory == [state |-> "none", at |-> 0, params |-> <<>>]
NoFunction == Function("", "")
NoDeco == [kind |-> "none", name |-> NoAtom, dtype |-> NoAtom, f |-> NoFunction, raised |-> FALSE]
NoCall == [made |-> FALSE, record |-> 0, ret |-> Raised, inner |-> Raised]
NoArgs == [student_col |-> "", year_col |-> "", target_cols |-> <<>>, numeric_dtypes |-> <<>>]
NoFrame == [cols |-> <<>>, dtypes |-> <<>>, rows |-> <<>>]
NoAgg == [state |-> "none", ids |-> <<>>, cols |-> <<>>, rows |-> <<>>]

RegistryIdle == factory = NoFactory /\ fn = NoFunction /\ deco = NoDeco /\ called = NoCall
AggIdle == frame = NoFrame /\ args = NoArgs /\ agg = NoAgg /\ again = NoAgg
CallsIdle == sparkles = <<>> /\ callers = <<>>
ExtractIdle == json_record = "idle" /\ metadata = "idle"
LoaderIdle == markdown_docs = "idle" /\ id_mapping = "idle" /\ processed = "idle"
StoreIdle == persist_dir = "idle" /\ vectorstore = "idle" /\ returned = "idle"
AppIdle ==
    /\ db_vectorstore = "idle" /\ vectorstore_initialized = "idle"
    /\ handlers = "idle" /\ served = "idle"
NestIdle == nest_df = "idle" /\ nest_args = "idle" /\ nest_out = "idle"
RetryIdle == retry = "idle"
ServiceIdle ==
    ExtractIdle /\ LoaderIdle /\ StoreIdle /\ AppIdle /\ NestIdle /\ RetryIdle
SparkleIdle ==
    /\ funcs = <<>> /\ data = <<>> /\ pc = "off" /\ pos = 0
    /\ mapped = <<>> /\ log = <<>> /\ result = NoResult

----------------------------------------------------------------------------
(* Spec: Sparkle(groups...), then source(data), then to_pandas(). *)

RECURSIVE Sum(_)
Sum(sz) == IF sz = <<>> THEN 0 ELSE Head(sz) + Sum(Tail(sz))

(* The groups of sizes sz cut from the function list fs. *)
Split(fs, sz) ==
    [g \in 1..Len(sz) |->
        SubSeq(fs, Sum(SubSeq(sz, 1, g - 1)) + 1, Sum(SubSeq(sz, 1, g)))]

Datasets == UNION {[1..n -> Records] : n \in 0..MaxRecords}

(* Sparkle.__init__: self.funcs = funcs; self.data = None. *)
Init ==
    /\ \E m \in 0..MaxGroups : \E sz \in [1..m -> 0..MaxFuncs] :
          /\ Sum(sz) <= MaxFuncs
          /\ \E fs \in [1..Sum(sz) -> Catalogue] : funcs = Split(fs, sz)
    /\ data = <<>>
    /\ pc = "new"
    /\ pos = 0
    /\ mapped = <<>>
    /\ log = <<>>
    /\ result = NoResult
    /\ RegistryIdle
    /\ ServiceIdle
    /\ AggIdle
    /\ CallsIdle

Next ==
    \/ \E d \in Datasets : Source(d)
    \/ MapStep
    \/ Materialize

Spec == Init /\ [][Next]_vars

----------------------------------------------------------------------------
(* Properties of Spec. *)

Returned == pc = "done" /\ result.status = "ok"

(* What function f of group g returns on record k of the dataset. *)
Output(k, g, f) == Call(funcs[g][f], data[k])

Calls == {<<k, g, f>> \in (1..Len(data)) \X (1..Len(funcs)) \X (1..MaxFuncs + 1) :
             f <= Len(funcs[g])}

(* The number of columns declared by the functions before function f of    *)
(* group g.                                                                *)
RECURSIVE Offset(_, _)
Offset(g, f) ==
    IF f <= 1 THEN 0 ELSE Offset(g, f - 1) + Len(funcs[g][f - 1].schema)

(* C1: when to_pandas returns, it returns the table itself if exactly one  *)
(* group was supplied, and a tuple of one table per group if several were. *)
C1_UnwrapOrTuple ==
    Returned =>
        /\ Len(funcs) = 1 => result.shape = "table" /\ Len(result.tables) = 1
        /\ Len(funcs) > 1 => result.shape = "tuple" /\ Len(result.tables) = Len(funcs)

(* C2: the columns of each returned table are the names of the specs of    *)
(* the group's functions, function after function and within a function    *)
(* in spec order; their number is the sum of the spec lengths.             *)
C2_ColumnNames ==
    Returned =>
        \A g \in 1..Len(result.tables) :
            /\ Len(result.tables[g].cols) = Offset(g, Len(funcs[g]) + 1)
            /\ \A f \in 1..Len(funcs[g]) : \A j \in 1..Len(funcs[g][f].schema) :
                  result.tables[g].cols[Offset(g, f) + j] = funcs[g][f].schema[j].name.val

C2_Witness ==
    /\ Returned
    /\ Len(data) = 2
    /\ \E g \in 1..Len(result.tables) :
          /\ Len(funcs[g]) = 2
          /\ result.tables[g].cols = <<"a", "b", "c">>

(* C3: for a dataset of N records (N = 0 included) every group has a table *)
(* of N rows, and row k holds the values extracted from record k.          *)
C3_RowPerRecord ==
    Returned =>
        /\ Len(result.tables) = Len(funcs)
        /\ \A g \in 1..Len(result.tables) :
              /\ Len(result.tables[g].rows) = Len(data)
              /\ \A k \in 1..Len(result.tables[g].rows) :
                    LET row == _extract(data[k], funcs[g]).row
                    IN  \A j \in 1..Len(row) :
                            /\ j <= Len(result.tables[g].rows[k])
                            /\ result.tables[g].rows[k][j] =
                                   Cast(row[j], result.tables[g].types[j]).v

(* The call c = <<k, g, f>> returns a list whose length is not the length  *)
(* of the function's declared spec.                                        *)
ArityBroken(c) ==
    LET o == Output(c[1], c[2], c[3])
    IN  o.ok /\ o.nest >= 1 /\ Len(Extend(o)) # Len(funcs[c[2]][c[3]].schema)

(* C4: if some function returns, for some record, a list whose length is   *)
(* not the length of its declared spec, extract fails (whatever the error  *)
(* is called) instead of returning tables.                                 *)
C4_ArityMismatchFails ==
    (pc = "done" /\ \E c \in Calls : ArityBroken(c)) => result.status # "ok"

(* Whether the value x can be represented exactly in dtype. *)
Exact(x, dtype) ==
    CASE dtype = "int" -> x.k \in {"int", "numstr"} \/ (x.k = "float" /\ x.v % 10 = 0)
      [] dtype = "float" -> x.k \in {"int", "float", "numstr", "fltstr"}
      [] OTHER -> TRUE

(* C5: if an extracted value cannot be represented exactly in the declared *)
(* dtype of its column, extract fails; no value is silently coerced.       *)
C5_InexactCastFails ==
    (/\ pc = "done"
     /\ \A c \in Calls : Output(c[1], c[2], c[3]).ok /\ ~ArityBroken(c)
     /\ \E c \in Calls : \E j \in 1..Len(funcs[c[2]][c[3]].schema) :
            ~Exact(Extend(Output(c[1], c[2], c[3]))[j],
                   funcs[c[2]][c[3]].schema[j].dtype.val))
    => result.status # "ok"

(* The fetch of record k followed by the calls of every function of every  *)
(* group on it, groups in supplied order, functions in declaration order.  *)
RECURSIVE GroupCalls(_, _, _)
GroupCalls(k, g, f) ==
    IF g > Len(funcs) THEN <<>>
    ELSE IF f > Len(funcs[g]) THEN GroupCalls(k, g + 1, 1)
    ELSE <<<<k, g, f>>>> \o GroupCalls(k, g, f + 1)

RecordCalls(k) == <<<<k, 0, 0>>>> \o GroupCalls(k, 1, 1)

RECURSIVE FullLog(_)
FullLog(n) == IF n = 0 THEN <<>> ELSE FullLog(n - 1) \o RecordCalls(n)

IsPrefix(s, t) == Len(s) <= Len(t) /\ SubSeq(t, 1, Len(s)) = s

HasRaised == pc = "done" /\ result.status = "raised"

(* C8: the dataset is read in one pass: record k is taken once, after      *)
(* every function of every group was applied to record k - 1, groups in    *)
(* supplied order and functions in declaration order; a to_pandas that     *)
(* returns has taken every record exactly once.                            *)
C8_SinglePass ==
    /\ pos <= Len(data)
    /\ IsPrefix(log, FullLog(pos))
    /\ ~HasRaised => log = FullLog(pos)
    /\ HasRaised => IsPrefix(FullLog(pos - 1) \o <<<<pos, 0, 0>>>>, log)
    /\ (pc = "done" /\ ~HasRaised) => pos = Len(data)

C8_Witness ==
    /\ Returned
    /\ Len(data) = 2
    /\ Len(funcs) = 2
    /\ Len(funcs[1]) = 1
    /\ Len(funcs[2]) = 1
    /\ Len(log) = 6

(* C9: a feature function that raises on a record ends the whole call with *)
(* that error: no table is returned for any group, and nothing is called   *)
(* after the function that raised (no retry, no further record).           *)
C9_RaiseAbortsAll ==
    /\ (pc = "done" /\ \E c \in Calls : ~Output(c[1], c[2], c[3]).ok) =>
           /\ result.status = "raised"
           /\ result.shape = "none"
           /\ result.tables = <<>>
    /\ \A i \in 1..Len(log) :
           (log[i][2] > 0 /\ ~Output(log[i][1], log[i][2], log[i][3]).ok) =>
               /\ i = Len(log)
               /\ HasRaised

C9_Witness ==
    /\ HasRaised
    /\ Len(funcs) = 2
    /\ Len(funcs[1]) = 1
    /\ \A k \in 1..Len(data) : Output(k, 1, 1).ok
    /\ Len(data) = 2
    /\ Output(2, 2, 1).ok = FALSE

----------------------------------------------------------------------------
(* SpecRegistry: calls of the decorator factories and of what they return. *)

(* The entries a params list is drawn from: a (name, dtype) tuple, a       *)
(* [name, dtype] list with a dtype string, a 3-tuple, an int, a 2-character *)
(* string, a pair whose name is an int, a pair whose dtype is None.        *)
Entries ==
    {Pair("a", "float"),
     Entry("list", 2, Str("b"), Str("category")),
     Entry("tuple", 3, NoAtom, NoAtom),
     Entry("int", 0, NoAtom, NoAtom),
     Entry("str", 2, NoAtom, NoAtom),
     Entry("tuple", 2, Atom("int", "7"), Type("int")),
     Entry("tuple", 2, Str("c"), NoAtom)}

ParamLists == UNION {[1..n -> Entries] : n \in 0..MaxParams}

Names == {Str("a"), Atom("int", "7")}
Dtypes == {Type("float"), Str("category"), NoAtom}

(* The functions a decorator may be applied to: undecorated ones, and the  *)
(* function the last decoration returned.                                  *)
Targets ==
    {Function("get_a", "get_a"), Function("get_h", "get_h")}
        \cup (IF fn = NoFunction THEN {} ELSE {fn})

InitRegistry ==
    /\ RegistryIdle
    /\ ServiceIdle
    /\ SparkleIdle
    /\ AggIdle
    /\ CallsIdle

(* multiple(params) is called; a run makes its factory calls before it    *)
(* decorates.                                                              *)
MultipleCall(params) ==
    /\ deco.kind = "none"
    /\ LET m == multiple(params)
       IN  factory' = [state |-> IF m.raised THEN "raised" ELSE "decorator",
                       at |-> m.at, params |-> params]
    /\ UNCHANGED <<fn, deco, called, sparkleVars, aggVars, callVars, serviceVars>>

(* The decorator a multiple call returned is applied to f. *)
MultipleDecorate(f) ==
    /\ factory.state = "decorator"
    /\ fn' = decorator(factory.params, f)
    /\ deco' = [kind |-> "multiple", name |-> NoAtom, dtype |-> NoAtom,
                f |-> f, raised |-> FALSE]
    /\ called' = NoCall
    /\ UNCHANGED <<factory, sparkleVars, aggVars, callVars, serviceVars>>

(* single(name, dtype) is called and the decorator it returns applied to f. *)
SingleDecorate(name, dtype, f) ==
    /\ f.wrap < MaxWrap
    /\ LET s == single(name, dtype, f)
       IN  /\ fn' = IF s.raised THEN fn ELSE s.fn
           /\ deco' = [kind |-> "single", name |-> name, dtype |-> dtype,
                       f |-> f, raised |-> s.raised]
    /\ called' = NoCall
    /\ UNCHANGED <<factory, sparkleVars, aggVars, callVars, serviceVars>>

(* The decorated function is called on record r; inner is what the         *)
(* function it was made from returns on r.                                 *)
CallDecorated(r) ==
    /\ deco.kind # "none"
    /\ ~deco.raised
    /\ called' = [made |-> TRUE, record |-> r, ret |-> Call(fn, r),
                  inner |-> Call(deco.f, r)]
    /\ UNCHANGED <<factory, fn, deco, sparkleVars, aggVars, callVars, serviceVars>>

NextRegistry ==
    \/ \E params \in ParamLists : MultipleCall(params)
    \/ \E f \in Targets : MultipleDecorate(f)
    \/ \E name \in Names : \E dtype \in Dtypes : \E f \in Targets :
          SingleDecorate(name, dtype, f)
    \/ \E r \in Records : CallDecorated(r)

SpecRegistry == InitRegistry /\ [][NextRegistry]_vars

(* An entry as multiple requires it: a 2-element pair whose name is a      *)
(* string and whose dtype is a type object or a string.                    *)
ValidEntry(p) ==
    /\ p.cls \in {"tuple", "list"}
    /\ p.len = 2
    /\ p.name.cls = "str"
    /\ p.dtype.cls \in {"type", "str"}

(* C6: multiple(params) raises at the call exactly when some entry is not  *)
(* a valid (name, dtype) pair, and returns a decorator exactly when every  *)
(* entry is valid; a schema attached by that decorator has valid entries   *)
(* only.                                                                   *)
C6_EagerValidation ==
    /\ factory.state = "raised" =>
           \E i \in 1..Len(factory.params) : ~ValidEntry(factory.params[i])
    /\ factory.state = "decorator" =>
           \A i \in 1..Len(factory.params) : ValidEntry(factory.params[i])
    /\ deco.kind = "multiple" =>
           /\ fn.hasSchema
           /\ \A i \in 1..Len(fn.schema) : ValidEntry(fn.schema[i])

C6_Witness ==
    /\ factory.state = "raised"
    /\ Len(factory.params) = 2
    /\ ValidEntry(factory.params[1])
    /\ factory.params[2].cls = "tuple"
    /\ factory.params[2].len = 2
    /\ factory.params[2].dtype = NoAtom
    /\ factory.at = 2
    /\ ~fn.hasSchema

(* C7: a function decorated with single(name, dtype) carries the spec      *)
(* [(name, dtype)] of length 1 and f's own identifier as display name, and *)
(* called on a record returns the one-element list [f(r)].                 *)
C7_SingleWraps ==
    (deco.kind = "single" /\ ~deco.raised) =>
        /\ fn.hasSchema
        /\ Len(fn.schema) = 1
        /\ fn.schema = <<Entry("tuple", 2, deco.name, deco.dtype)>>
        /\ fn.name = deco.f.ident
        /\ called.made =>
               called.ret = IF called.inner.ok
                            THEN [called.inner EXCEPT !.nest = called.inner.nest + 1]
                            ELSE called.inner

(* C21: every schema attached by multiple (and by single) has pairwise     *)
(* distinct names; a params list that repeats a name is never accepted as  *)
(* a function's schema.                                                    *)
C21_UniqueNames ==
    /\ factory.state = "decorator" =>
           \A i, j \in 1..Len(factory.params) :
               factory.params[i].name = factory.params[j].name => i = j
    /\ fn.hasSchema =>
           \A i, j \in 1..Len(fn.schema) :
               fn.schema[i].name = fn.schema[j].name => i = j

----------------------------------------------------------------------------
(* utils.py: create_student_features.  A DataFrame is its column names,    *)
(* their dtypes and its rows; a cell of the input is an integer (a float64 *)
(* column counts in tenths).  A cell of the output is a rational n/d.      *)

RECURSIVE GCD(_, _)
GCD(a, b) == IF b = 0 THEN a ELSE GCD(b, a % b)

Abs(x) == IF x < 0 THEN -x ELSE x

(* n/d in lowest terms, d > 0. *)
Rat(n, d) ==
    LET g == GCD(Abs(n), Abs(d))
        sgn == IF d < 0 THEN -1 ELSE 1
    IN  [n |-> sgn * (n \div g), d |-> sgn * (d \div g)]

Whole(x) == [n |-> x, d |-> 1]

InSeq(x, s) == \E i \in 1..Len(s) : s[i] = x

ColIndex(cols, name) == CHOOSE j \in 1..Len(cols) : cols[j] = name

(* The elements of s at the positions in I, in the order of s. *)
Pick(s, I) ==
    LET F[i \in 0..Len(s)] ==
            IF i = 0 THEN <<>>
            ELSE IF i \in I THEN Append(F[i - 1], s[i]) ELSE F[i - 1]
    IN  F[Len(s)]

(* A faulty variant of drop: no column is removed. *)
drop_nothing(df, target_cols) == df

(* df.drop(columns=target_cols, errors="ignore") *)
drop(df, target_cols) ==
    LET keep == Pick([j \in 1..Len(df.cols) |-> j],
                     {j \in 1..Len(df.cols) : ~InSeq(df.cols[j], target_cols)})
    IN  [cols |-> [i \in 1..Len(keep) |-> df.cols[keep[i]]],
         dtypes |-> [i \in 1..Len(keep) |-> df.dtypes[keep[i]]],
         rows |-> [k \in 1..Len(df.rows) |->
                     [i \in 1..Len(keep) |-> df.rows[k][keep[i]]]]]

(* Whether row a sorts strictly before row b on the key columns by. *)
RECURSIVE Before(_, _, _)
Before(a, b, by) ==
    IF by = <<>> THEN FALSE
    ELSE \/ a[Head(by)] < b[Head(by)]
         \/ a[Head(by)] = b[Head(by)] /\ Before(a, b, Tail(by))

(* A faulty variant of sort_values: the frame is left in its input order. *)
sort_values_skipped(rows, by) == rows

(* sort_values(by): the rows in ascending key order, rows of equal keys in *)
(* their input order.                                                      *)
sort_values(rows, by) ==
    LET Insert(sorted, r) ==
            LET n == Cardinality({i \in 1..Len(sorted) : ~Before(r, sorted[i], by)})
            IN  SubSeq(sorted, 1, n) \o <<r>> \o SubSeq(sorted, n + 1, Len(sorted))
        F[i \in 0..Len(rows)] == IF i = 0 THEN <<>> ELSE Insert(F[i - 1], rows[i])
    IN  F[Len(rows)]

(* The keys of groupby(student_col), ascending. *)
GroupKeys(rows, sc) ==
    LET keys == {rows[k][sc] : k \in 1..Len(rows)}
        F[S \in SUBSET keys] ==
            IF S = {} THEN <<>>
            ELSE LET m == CHOOSE x \in S : \A y \in S : x <= y
                 IN  <<m>> \o F[S \ {m}]
    IN  F[keys]

(* A faulty variant of Group: the rows before the group count with it. *)
Group_with_earlier_keys(rows, sc, key) ==
    Pick(rows, {k \in 1..Len(rows) : rows[k][sc] <= key})

(* The rows of one group, in the frame's order. *)
Group(rows, sc, key) == Pick(rows, {k \in 1..Len(rows) : rows[k][sc] = key})

(* A faulty variant of head: the last row of every group is taken for the  *)
(* first.                                                                  *)
head_taking_last(rows, sc) ==
    LET ks == GroupKeys(rows, sc)
    IN  [i \in 1..Len(ks) |->
            LET g == Group(rows, sc, ks[i]) IN g[Len(g)]]

(* groupby(student_col).head(1) and .tail(1): the first and the last row   *)
(* of every group.                                                         *)
head(rows, sc) ==
    LET ks == GroupKeys(rows, sc) IN [i \in 1..Len(ks) |-> Head(Group(rows, sc, ks[i]))]

tail(rows, sc) ==
    LET ks == GroupKeys(rows, sc)
    IN  [i \in 1..Len(ks) |->
            LET g == Group(rows, sc, ks[i]) IN g[Len(g)]]

(* A faulty variant of slope: iy_sum counts the ranks from 1 while idx_sum  *)
(* and idx_sqsum count them from 0.                                        *)
slope_ranks_from_one(group, yc, col) ==
    LET grp == sort_values(group, <<yc>>)
        n == Len(grp)
        idx_sum == (n * (n - 1)) \div 2
        idx_sqsum == ((n - 1) * n * (2 * n - 1)) \div 6
        y == [i \in 1..n |-> grp[i][col]]
        y_sum == Sum(y)
        iy_sum == Sum([i \in 1..n |-> i * y[i]])
        denom == n * idx_sqsum - idx_sum * idx_sum
    IN  IF n < 2 \/ denom = 0 THEN Whole(0)
        ELSE Rat(n * iy_sum - idx_sum * y_sum, denom)

(* A faulty variant of slope: the regression is against the values of the  *)
(* year column, not against the ranks.                                     *)
slope_against_year(group, yc, col) ==
    LET grp == sort_values(group, <<yc>>)
        n == Len(grp)
        t == [i \in 1..n |-> grp[i][yc]]
        y == [i \in 1..n |-> grp[i][col]]
        denom == n * Sum([i \in 1..n |-> t[i] * t[i]]) - Sum(t) * Sum(t)
    IN  IF n < 2 \/ denom = 0 THEN Whole(0)
        ELSE Rat(n * Sum([i \in 1..n |-> t[i] * y[i]]) - Sum(t) * Sum(y), denom)

(* slope_and_count for one group and one numeric column: the slope of the  *)
(* column's values, in year order, against 0, 1, ..., n - 1.               *)
slope(group, yc, col) ==
    LET grp == sort_values(group, <<yc>>)
        n == Len(grp)
        idx_sum == (n * (n - 1)) \div 2
        idx_sqsum == ((n - 1) * n * (2 * n - 1)) \div 6
        y == [i \in 1..n |-> grp[i][col]]
        y_sum == Sum(y)
        iy_sum == Sum([i \in 1..n |-> (i - 1) * y[i]])
        denom == n * idx_sqsum - idx_sum * idx_sum
    IN  IF n < 2 \/ denom = 0 THEN Whole(0)
        ELSE Rat(n * iy_sum - idx_sum * y_sum, denom)

NoTables(state) == [state |-> state, ids |-> <<>>, cols |-> <<>>, rows |-> <<>>]

(* all_feature_cols: the positions of the columns of X_data other than     *)
(* student_col and year_col, in column order.                              *)
all_feature_cols(cols, a) ==
    Pick([j \in 1..Len(cols) |-> j],
         {j \in 1..Len(cols) : cols[j] # a.student_col /\ cols[j] # a.year_col})

(* A faulty variant of numeric_cols: the dtype of a column is not looked   *)
(* at.                                                                     *)
numeric_cols_of_any_dtype(cols, dtypes, a) == all_feature_cols(cols, a)

(* numeric_cols: of those, the columns whose dtype is in numeric_dtypes.   *)
numeric_cols(cols, dtypes, a) ==
    LET features == all_feature_cols(cols, a)
    IN  Pick(features, {i \in 1..Len(features) :
                           InSeq(dtypes[features[i]], a.numeric_dtypes)})

(* create_student_features(df, student_col, year_col, target_cols,        *)
(* numeric_dtypes): the validation, then the student table (ids) and the   *)
(* feature table (cols, rows).  sort_values raises KeyError for a key that *)
(* drop has removed.  The columns of the feature table are those of        *)
(* last.join(delta).join(trends), and trends has the keys of out in the    *)
(* order slope_and_count sets them: num_snapshots, then the slopes.        *)
create_student_features(df, a) ==
    IF df.rows = <<>> \/ df.cols = <<>> THEN NoTables("ValueError")
    ELSE IF ~InSeq(a.student_col, df.cols) THEN NoTables("ValueError")
    ELSE IF ~InSeq(a.year_col, df.cols) THEN NoTables("ValueError")
    ELSE IF InSeq(a.student_col, a.target_cols) \/ InSeq(a.year_col, a.target_cols)
    THEN NoTables("KeyError")
    ELSE
    LET dropped == drop(df, a.target_cols)
        cols == dropped.cols
        sc == ColIndex(cols, a.student_col)
        yc == ColIndex(cols, a.year_col)
        X_data == sort_values(dropped.rows, <<sc, yc>>)
        numeric == numeric_cols(cols, dropped.dtypes, a)
        features == all_feature_cols(cols, a)
        first_raw == head(X_data, sc)
        last_raw_all == tail(X_data, sc)
        keys == GroupKeys(X_data, sc)
        latest(i) == [c \in 1..Len(features) |->
                         Whole(last_raw_all[i][features[c]])]
        delta(i) == [c \in 1..Len(numeric) |->
                         Whole(last_raw_all[i][numeric[c]]
                                 - first_raw[i][numeric[c]])]
        trends(i) ==
            LET group == Group(X_data, sc, keys[i])
            IN  <<Whole(Len(group))>> \o
                [c \in 1..Len(numeric) |-> slope(group, yc, numeric[c])]
    IN  IF numeric = <<>> THEN NoTables("ValueError")
        ELSE [state |-> "ok",
              ids |-> keys,
              cols |-> [c \in 1..Len(features) |-> cols[features[c]] \o "_latest"]
                       \o [c \in 1..Len(numeric) |-> cols[numeric[c]] \o "_delta"]
                       \o <<"num_snapshots">>
                       \o [c \in 1..Len(numeric) |-> cols[numeric[c]] \o "_slope"],
              rows |-> [i \in 1..Len(keys) |-> latest(i) \o delta(i) \o trends(i)]]

----------------------------------------------------------------------------
(* SpecAgg: one call of create_student_features. *)

MaxRows == 3        \* rows of the input frame

FrameCols == <<"student_id", "year", "gpa", "major", "target">>
FrameDtypes == <<"int64", "int64", "float64", "object", "int64">>

(* The rows a frame is drawn from: a student, a year, and one of three     *)
(* snapshots (gpa in tenths, major, target).                               *)
Snapshots == {<<30, 1, 0>>, <<32, 1, 1>>, <<35, 2, 1>>}
FrameRows == {<<s, y>> \o snap : s \in {1, 2}, y \in {1, 2, 3}, snap \in Snapshots}

DefaultArgs ==
    [student_col |-> "student_id", year_col |-> "year",
     target_cols |-> <<"target">>, numeric_dtypes |-> <<"float64", "int64">>]

ArgSets ==
    {DefaultArgs,
     [DefaultArgs EXCEPT !.student_col = "sid"],
     [DefaultArgs EXCEPT !.year_col = "yr"],
     [DefaultArgs EXCEPT !.target_cols = <<>>],
     [DefaultArgs EXCEPT !.target_cols = <<"target", "absent">>],
     [DefaultArgs EXCEPT !.target_cols = <<"target", "gpa">>],
     [DefaultArgs EXCEPT !.numeric_dtypes = <<"int64">>],
     [DefaultArgs EXCEPT !.target_cols = <<>>, !.numeric_dtypes = <<"int64">>],
     [DefaultArgs EXCEPT !.target_cols = <<"target", "student_id">>]}

InitAgg ==
    /\ \E n \in 0..MaxRows : \E rows \in [1..n -> FrameRows] :
          frame = [cols |-> FrameCols, dtypes |-> FrameDtypes, rows |-> rows]
    /\ args \in ArgSets
    /\ args = DefaultArgs \/ Len(frame.rows) <= 1
    /\ agg = NoAgg
    /\ again = NoAgg
    /\ RegistryIdle
    /\ ServiceIdle
    /\ SparkleIdle
    /\ CallsIdle

CreateStudentFeatures ==
    /\ agg.state = "none"
    /\ agg' = create_student_features(frame, args)
    /\ UNCHANGED <<frame, args, again, sparkleVars, registryVars, callVars, serviceVars>>

NextAgg == CreateStudentFeatures

SpecAgg == InitAgg /\ [][NextAgg]_vars

(* SpecPanel: one call on a frame with one row per (entity, time) pair, as *)
(* a longitudinal frame is made, with any of the argument sets.            *)
InitPanel ==
    /\ \E n \in 0..MaxRows : \E rows \in [1..n -> FrameRows] :
          /\ \A i, j \in 1..n :
                 (rows[i][1] = rows[j][1] /\ rows[i][2] = rows[j][2]) => i = j
          /\ frame = [cols |-> FrameCols, dtypes |-> FrameDtypes, rows |-> rows]
    /\ args \in ArgSets
    /\ args = DefaultArgs \/ Len(frame.rows) < MaxRows
    /\ agg = NoAgg
    /\ again = NoAgg
    /\ RegistryIdle
    /\ ServiceIdle
    /\ SparkleIdle
    /\ CallsIdle

SpecPanel == InitPanel /\ [][NextAgg]_vars

(* The rows of the input frame that carry entity e. *)
RowsOf(e) ==
    LET sc == ColIndex(frame.cols, args.student_col)
    IN  {k \in 1..Len(frame.rows) : frame.rows[k][sc] = e}

TimeOf(k) == frame.rows[k][ColIndex(frame.cols, args.year_col)]

(* The rows of entity e with the maximum time value. *)
LatestRows(e) ==
    LET R == RowsOf(e)
        yc == ColIndex(frame.cols, args.year_col)
    IN  {k \in R : \A j \in R : frame.rows[j][yc] <= frame.rows[k][yc]}

FeatureCols ==
    {c \in 1..Len(frame.cols) :
        /\ frame.cols[c] # args.student_col
        /\ frame.cols[c] # args.year_col
        /\ ~InSeq(frame.cols[c], args.target_cols)}

(* C10: for every entity and every feature column (every column but the    *)
(* entity, time and target columns) {col}_latest is the column's value in  *)
(* the entity's row of maximum time, whatever the order of the input rows. *)
C10_Latest ==
    agg.state = "ok" =>
        \A i \in 1..Len(agg.ids) :
            LET latest == LatestRows(agg.ids[i])
            IN  \A c \in FeatureCols :
                    /\ InSeq(frame.cols[c] \o "_latest", agg.cols)
                    /\ \E k \in latest :
                          agg.rows[i][ColIndex(agg.cols, frame.cols[c] \o "_latest")]
                              = Whole(frame.rows[k][c])
                    /\ Cardinality(latest) = 1 =>
                          \A k \in latest :
                              agg.rows[i][ColIndex(agg.cols, frame.cols[c] \o "_latest")]
                                  = Whole(frame.rows[k][c])

(* An entity whose three rows arrive latest first. *)
C10_Witness ==
    /\ agg.state = "ok"
    /\ Len(frame.rows) = 3
    /\ \A k \in 1..3 : frame.rows[k][1] = 1
    /\ TimeOf(1) = 3 /\ TimeOf(2) = 1 /\ TimeOf(3) = 2
    /\ frame.rows[1][3] = 35 /\ frame.rows[3][3] = 30
    /\ agg.rows[1][ColIndex(agg.cols, "gpa_latest")] = Whole(35)
    /\ agg.rows[1][ColIndex(agg.cols, "major_latest")] = Whole(2)

(* The rows of entity e with the minimum time value. *)
EarliestRows(e) ==
    LET R == RowsOf(e)
        yc == ColIndex(frame.cols, args.year_col)
    IN  {k \in R : \A j \in R : frame.rows[k][yc] <= frame.rows[j][yc]}

(* The feature columns whose dtype is in numeric_dtypes. *)
NumericCols == {c \in FeatureCols : InSeq(frame.dtypes[c], args.numeric_dtypes)}

(* The value of output column name in row i of the feature table. *)
Out(i, name) == agg.rows[i][ColIndex(agg.cols, name)]

(* C11: for every entity and every numeric feature {col}_delta is the      *)
(* value in the entity's row of maximum time minus the value in its row of *)
(* minimum time, and 0 for an entity with exactly one observation.         *)
C11_Delta ==
    agg.state = "ok" =>
        \A i \in 1..Len(agg.ids) :
            LET latest == LatestRows(agg.ids[i])
                earliest == EarliestRows(agg.ids[i])
                n == Cardinality(RowsOf(agg.ids[i]))
            IN  \A c \in NumericCols :
                    /\ InSeq(frame.cols[c] \o "_delta", agg.cols)
                    /\ \E k \in latest : \E j \in earliest :
                          Out(i, frame.cols[c] \o "_delta")
                              = Whole(frame.rows[k][c] - frame.rows[j][c])
                    /\ n = 1 => Out(i, frame.cols[c] \o "_delta") = Whole(0)

(* Entity 1 observed twice, the later snapshot first in the frame, and     *)
(* entity 2 observed once.                                                 *)
C11_Witness ==
    /\ agg.state = "ok"
    /\ Len(frame.rows) = 3
    /\ frame.rows[1] = <<1, 3, 35, 2, 1>>
    /\ frame.rows[2] = <<2, 2, 32, 1, 1>>
    /\ frame.rows[3] = <<1, 1, 30, 1, 0>>
    /\ agg.ids = <<1, 2>>
    /\ Out(1, "gpa_delta") = Whole(5)
    /\ Out(2, "gpa_delta") = Whole(0)

(* The orders of the rows of entity e that are ascending in time. *)
TimeOrders(e) ==
    LET R == RowsOf(e)
        yc == ColIndex(frame.cols, args.year_col)
    IN  {o \in [1..Cardinality(R) -> R] :
            \A i, j \in DOMAIN o :
                i < j => /\ o[i] # o[j]
                         /\ frame.rows[o[i]][yc] <= frame.rows[o[j]][yc]}

(* The least-squares slope of y against the ranks 0 .. n - 1, every sum    *)
(* written out.                                                            *)
RankDenominator(n) ==
    n * Sum([i \in 1..n |-> (i - 1) * (i - 1)])
        - Sum([i \in 1..n |-> i - 1]) * Sum([i \in 1..n |-> i - 1])

OLS(y) ==
    LET n == Len(y)
    IN  Rat(n * Sum([i \in 1..n |-> (i - 1) * y[i]])
                - Sum([i \in 1..n |-> i - 1]) * Sum(y),
            RankDenominator(n))

(* The rows of one entity with the values y, at the times 1, 2, ... *)
Series(y) == [i \in 1..Len(y) |-> <<1, i, y[i]>>]

(* The denominator for n = 2 .. 2 * MaxRows, and the slopes of the         *)
(* examples: gpa is in tenths, so 0.25 is 5/2 and 0.15 is 3/2.             *)
SlopeExamples ==
    /\ \A n \in 2..(2 * MaxRows) : RankDenominator(n) # 0
    /\ slope(Series(<<1, 2, 3, 4>>), 2, 3) = Whole(1)
    /\ slope(Series(<<30, 32, 35>>), 2, 3) = Rat(5, 2)
    /\ slope(Series(<<28, 30, 31>>), 2, 3) = Rat(3, 2)
    /\ slope(Series(<<5>>), 2, 3) = Whole(0)

(* C12: {col}_slope is the least-squares slope of the entity's time-ordered *)
(* values against the ranks 0 .. n - 1, and 0 when n < 2; the denominator  *)
(* is not zero for n >= 2; y = [1,2,3,4] gives 1, gpa [3.0,3.2,3.5] gives  *)
(* 0.25, [2.8,3.0,3.1] gives 0.15 and [5] gives 0.                         *)
C12_Slope ==
    /\ SlopeExamples
    /\ agg.state = "ok" =>
           \A i \in 1..Len(agg.ids) :
               LET n == Cardinality(RowsOf(agg.ids[i]))
                   orders == TimeOrders(agg.ids[i])
               IN  \A c \in NumericCols :
                       /\ InSeq(frame.cols[c] \o "_slope", agg.cols)
                       /\ n < 2 => Out(i, frame.cols[c] \o "_slope") = Whole(0)
                       /\ n >= 2 =>
                              \E o \in orders :
                                  Out(i, frame.cols[c] \o "_slope")
                                      = OLS([r \in DOMAIN o |-> frame.rows[o[r]][c]])

(* One entity, its three snapshots 3.0, 3.2, 3.5 given latest first. *)
C12_Witness ==
    /\ agg.state = "ok"
    /\ Len(frame.rows) = 3
    /\ frame.rows[1] = <<1, 3, 35, 2, 1>>
    /\ frame.rows[2] = <<1, 1, 30, 1, 0>>
    /\ frame.rows[3] = <<1, 2, 32, 1, 1>>
    /\ Out(1, "gpa_slope") = Rat(5, 2)

(* Other time values in the order of the years 1, 2, 3. *)
Retimings == {<<0, 1, 2>>, <<1, 10, 100>>, <<2020, 2021, 2022>>}

(* The frame with the time values of entity e replaced through m. *)
Retime(df, a, e, m) ==
    LET sc == ColIndex(df.cols, a.student_col)
        yc == ColIndex(df.cols, a.year_col)
    IN  [df EXCEPT !.rows =
            [k \in 1..Len(df.rows) |->
                IF df.rows[k][sc] = e
                THEN [df.rows[k] EXCEPT ![yc] = m[df.rows[k][yc]]]
                ELSE df.rows[k]]]

(* C13: replacing the time values of an entity by other values in the same *)
(* order leaves the identifier table and every column of the feature table *)
(* (latest, delta, slope, num_snapshots) as they were.                     *)
C13_OrderOnly ==
    agg.state = "ok" =>
        \A i \in 1..Len(agg.ids) : \A m \in Retimings :
            create_student_features(Retime(frame, args, agg.ids[i], m), args) = agg

(* Entity 1 at the years 1 and 3 (a gap), entity 2 at the year 2. *)
C13_Witness ==
    /\ agg.state = "ok"
    /\ Len(frame.rows) = 3
    /\ frame.rows[1] = <<1, 3, 35, 2, 1>>
    /\ frame.rows[2] = <<2, 2, 32, 1, 1>>
    /\ frame.rows[3] = <<1, 1, 30, 1, 0>>
    /\ Out(1, "gpa_slope") = Whole(5)
    /\ Out(1, "num_snapshots") = Whole(2)

Suffixes == {"_latest", "_delta", "_slope"}

Called == agg.state # "none"

Targets_named == {args.target_cols[i] : i \in 1..Len(args.target_cols)}

(* C14: no column named in target_cols appears in the feature table under  *)
(* any suffix, and a target column that the frame does not have is not an  *)
(* error: the call returns whenever the frame is not empty, has the entity *)
(* and time columns (neither named as a target) and a numeric feature.     *)
C14_TargetsExcluded ==
    /\ agg.state = "ok" =>
           \A t \in Targets_named : \A sfx \in Suffixes : ~InSeq(t \o sfx, agg.cols)
    /\ (/\ Called
        /\ \E t \in Targets_named : ~InSeq(t, frame.cols)
        /\ frame.rows # <<>>
        /\ InSeq(args.student_col, frame.cols) /\ ~(args.student_col \in Targets_named)
        /\ InSeq(args.year_col, frame.cols) /\ ~(args.year_col \in Targets_named)
        /\ NumericCols # {})
       => agg.state = "ok"

(* The targets are a column of the frame and a column it does not have. *)
C14_Witness ==
    /\ agg.state = "ok"
    /\ args.target_cols = <<"target", "absent">>
    /\ Len(frame.rows) = 2
    /\ InSeq("target", frame.cols)
    /\ agg.cols = <<"gpa_latest", "major_latest", "gpa_delta", "num_snapshots", "gpa_slope">>

(* The four cases in which the call is to fail. *)
ErrorCase ==
    \/ frame.rows = <<>>
    \/ ~InSeq(args.student_col, frame.cols)
    \/ ~InSeq(args.year_col, frame.cols)
    \/ NumericCols = {}

(* C15: the call fails with a ValueError-class error and returns no table  *)
(* when the frame is empty, the entity or the time column is missing, or   *)
(* no numeric column remains after the targets are removed; in every other *)
(* case it returns normally.                                               *)
C15_ErrorCases ==
    Called =>
        /\ ErrorCase => agg = NoTables("ValueError")
        /\ ~ErrorCase => agg.state = "ok"

Entities == {frame.rows[k][ColIndex(frame.cols, args.student_col)] : k \in 1..Len(frame.rows)}

(* C16: the identifier table and the feature table have one row per        *)
(* distinct entity of the frame, none missing and none twice; row i of the *)
(* feature table is made from rows of the entity in row i of the           *)
(* identifier table; num_snapshots is the number of input rows of that     *)
(* entity, and the num_snapshots values sum to the frame's row count.      *)
C16_Aligned ==
    agg.state = "ok" =>
        /\ Len(agg.ids) = Len(agg.rows)
        /\ Len(agg.ids) = Cardinality(Entities)
        /\ {agg.ids[i] : i \in 1..Len(agg.ids)} = Entities
        /\ \A i \in 1..Len(agg.ids) :
              /\ Out(i, "num_snapshots") = Whole(Cardinality(RowsOf(agg.ids[i])))
              /\ \E k \in RowsOf(agg.ids[i]) : \A c \in FeatureCols :
                    Out(i, frame.cols[c] \o "_latest") = Whole(frame.rows[k][c])
        /\ Sum([i \in 1..Len(agg.ids) |-> Out(i, "num_snapshots").n]) = Len(frame.rows)

(* Entity 2 observed twice, entity 1 once between its rows. *)
C16_Witness ==
    /\ agg.state = "ok"
    /\ Len(frame.rows) = 3
    /\ frame.rows[1][1] = 2 /\ frame.rows[2][1] = 1 /\ frame.rows[3][1] = 2
    /\ frame.rows[1][3] # frame.rows[2][3]
    /\ agg.ids = <<1, 2>>
    /\ Out(1, "num_snapshots") = Whole(1)
    /\ Out(2, "num_snapshots") = Whole(2)

ColumnSet == {agg.cols[j] : j \in 1..Len(agg.cols)}

(* C17: the columns of the feature table are exactly {f}_latest for every  *)
(* column f but the entity, time and target columns, {f}_delta and         *)
(* {f}_slope for those f whose dtype is in numeric_dtypes, and             *)
(* num_snapshots, each once; a column of another dtype has its _latest     *)
(* column only, and the entity and time columns have none.                 *)
C17_Columns ==
    agg.state = "ok" =>
        /\ ColumnSet = {frame.cols[c] \o "_latest" : c \in FeatureCols}
                         \cup {frame.cols[c] \o "_delta" : c \in NumericCols}
                         \cup {frame.cols[c] \o "_slope" : c \in NumericCols}
                         \cup {"num_snapshots"}
        /\ Cardinality(ColumnSet) = Len(agg.cols)
        /\ \A c \in FeatureCols \ NumericCols :
              /\ frame.cols[c] \o "_latest" \in ColumnSet
              /\ ~(frame.cols[c] \o "_delta" \in ColumnSet)
              /\ ~(frame.cols[c] \o "_slope" \in ColumnSet)
        /\ \A sfx \in Suffixes :
              /\ ~(args.student_col \o sfx \in ColumnSet)
              /\ ~(args.year_col \o sfx \in ColumnSet)

(* numeric_dtypes names int64 only: gpa (float64) and major (object) have  *)
(* their latest value only.                                                *)
C17_Witness ==
    /\ agg.state = "ok"
    /\ args.numeric_dtypes = <<"int64">>
    /\ args.target_cols = <<>>
    /\ Len(frame.rows) = 2
    /\ agg.cols = <<"gpa_latest", "major_latest", "target_latest",
                    "target_delta", "num_snapshots", "target_slope">>

(* The names of the columns at the positions js of the frame, with a       *)
(* suffix.                                                                 *)
Suffixed(js, sfx) == [i \in 1..Len(js) |-> frame.cols[js[i]] \o sfx]

(* C18: the feature table has its columns in the order: every _latest      *)
(* column in input column order, every _delta column, every _slope column, *)
(* then num_snapshots as the last column.                                  *)
C18_ColumnOrder ==
    agg.state = "ok" =>
        LET fs == Pick([j \in 1..Len(frame.cols) |-> j], FeatureCols)
            ns == Pick([j \in 1..Len(frame.cols) |-> j], NumericCols)
        IN  agg.cols = Suffixed(fs, "_latest") \o Suffixed(ns, "_delta")
                         \o Suffixed(ns, "_slope") \o <<"num_snapshots">>

----------------------------------------------------------------------------
(* SpecCalls: calls made more than once.  Either several callers, each     *)
(* with a dataset of its own, call source(dataset) and then to_pandas() on *)
(* Sparkle objects (their own or one they share), a caller calling         *)
(* to_pandas() up to twice; or create_student_features is called twice     *)
(* with the same arguments.                                                *)

CallerIds == {1, 2}
ObjectIds == {1, 2}

(* The groups the Sparkle objects are built with. *)
Engines ==
    {<< <<get_a>> >>,
     << <<get_a, get_bc>> >>,
     << <<get_a>>, <<get_h>> >>}

(* A dataset handed to source, which accepts any Iterable: a list, or an   *)
(* iterator (a generator, a cursor), of which the records handed out are   *)
(* gone.                                                                   *)
DatasetObjects ==
    {[kind |-> k, items |-> d, taken |-> 0] : k \in {"list", "iterator"}, d \in Datasets}

(* A faulty variant of Remaining: a list is used up by a pass as an        *)
(* iterator is.                                                            *)
Remaining_of_used_up_list(ds) == SubSeq(ds.items, ds.taken + 1, Len(ds.items))

(* The records map(extractor_function, self.data) gets from the dataset: a *)
(* list is iterated from its start on every pass, an iterator from where   *)
(* the last pass left it.                                                  *)
Remaining(ds) ==
    IF ds.kind = "list" THEN ds.items
    ELSE SubSeq(ds.items, ds.taken + 1, Len(ds.items))

(* to_pandas() as one step over the records recs: to_matrix maps every     *)
(* record (an exception ends the call at that record), then the tables     *)
(* are made.  taken: the records taken from the dataset.                   *)
to_pandas(fs, recs) ==
    LET e(k) == _grouped_extractor(recs[k], fs)
        bad == {k \in 1..Len(recs) : ~e(k).ok}
    IN  IF bad # {}
        THEN [taken |-> Min(bad),
              out |-> [status |-> "raised", shape |-> "none", tables |-> <<>>]]
        ELSE [taken |-> Len(recs),
              out |-> Frames(Transpose([k \in 1..Len(recs) |-> e(k).rows], Len(fs)), fs)]

(* Caller c calls source(its dataset) on its Sparkle object: self.data is  *)
(* set to the dataset (data holds a reference: the caller whose dataset it *)
(* is; 0 is None).                                                         *)
CallerSource(c) ==
    /\ callers[c].pc = "new"
    /\ sparkles' = [sparkles EXCEPT ![callers[c].obj].data = c]
    /\ callers' = [callers EXCEPT ![c].pc = "sourced"]
    /\ UNCHANGED <<sparkleVars, registryVars, aggVars, serviceVars>>

(* Caller c calls to_pandas() on its Sparkle object, which reads self.data *)
(* and self.funcs.  The return is kept with the dataset it was read from   *)
(* (src) and the number of its records the pass could not see any more     *)
(* (at); taken counts the records the dataset has handed out.              *)
CallerToPandas(c) ==
    /\ callers[c].pc \in {"sourced", "returned"}
    /\ Len(callers[c].rets) < 2
    /\ LET o == callers[c].obj
           d == sparkles[o].data
           ds == callers[d].dataset
           r == to_pandas(sparkles[o].funcs, Remaining(ds))
       IN  callers' =
               [callers EXCEPT
                   ![c].pc = "returned",
                   ![c].rets = Append(@, [src |-> d,
                                          at |-> Len(ds.items) - Len(Remaining(ds)),
                                          out |-> r.out]),
                   ![d].dataset.taken = @ + r.taken]
    /\ UNCHANGED <<sparkles, sparkleVars, registryVars, aggVars, serviceVars>>

(* create_student_features is called a second time with the frame and the  *)
(* arguments of the first call.                                            *)
CreateStudentFeaturesAgain ==
    /\ agg.state # "none"
    /\ again.state = "none"
    /\ again' = create_student_features(frame, args)
    /\ UNCHANGED <<frame, args, agg, sparkleVars, registryVars, callVars, serviceVars>>

(* Sparkle objects built with the same groups; caller 1 uses object 1,     *)
(* caller 2 the same object or object 2.                                   *)
InitCallers ==
    /\ \E fs \in Engines : sparkles = [o \in ObjectIds |-> [funcs |-> fs, data |-> 0]]
    /\ \E ob \in [CallerIds -> ObjectIds] : \E ds \in [CallerIds -> DatasetObjects] :
          /\ ob[1] = 1
          /\ callers = [c \in CallerIds |->
                           [obj |-> ob[c], dataset |-> ds[c], pc |-> "new", rets |-> <<>>]]
    /\ SparkleIdle
    /\ RegistryIdle
    /\ ServiceIdle
    /\ AggIdle

InitRepeat ==
    /\ \E n \in 0..(MaxRows - 1) : \E rows \in [1..n -> FrameRows] :
          frame = [cols |-> FrameCols, dtypes |-> FrameDtypes, rows |-> rows]
    /\ args \in ArgSets
    /\ args = DefaultArgs \/ Len(frame.rows) <= 1
    /\ agg = NoAgg
    /\ again = NoAgg
    /\ RegistryIdle
    /\ ServiceIdle
    /\ SparkleIdle
    /\ CallsIdle

InitCalls == InitCallers \/ InitRepeat

NextCalls ==
    \/ \E c \in DOMAIN callers : CallerSource(c)
    \/ \E c \in DOMAIN callers : CallerToPandas(c)
    \/ callers = <<>> /\ CreateStudentFeatures
    \/ callers = <<>> /\ CreateStudentFeaturesAgain

SpecCalls == InitCalls /\ [][NextCalls]_vars

(* The returns of caller c. *)
Rets(c) == callers[c].rets

(* Caller c has made two to_pandas() calls that read the same dataset. *)
TwiceOnOneSource(c) == Len(Rets(c)) = 2 /\ Rets(c)[1].src = Rets(c)[2].src

(* The first calls of b and c had identical inputs: objects with the same  *)
(* groups, and datasets of the same records, none of them taken before.    *)
SameInputs(b, c) ==
    /\ Len(Rets(b)) >= 1 /\ Len(Rets(c)) >= 1
    /\ sparkles[callers[b].obj].funcs = sparkles[callers[c].obj].funcs
    /\ callers[Rets(b)[1].src].dataset.items = callers[Rets(c)[1].src].dataset.items
    /\ Rets(b)[1].at = 0 /\ Rets(c)[1].at = 0

C20_OwnDataset ==
    \A c \in DOMAIN callers :
        Len(Rets(c)) >= 1 =>
            Rets(c)[1].out =
                to_pandas(sparkles[callers[c].obj].funcs, callers[c].dataset.items).out


----------------------------------------------------------------------------
(* chatbot/utils/metadata_extractor.py: extract_metadata_from_json.        *)
(* A dict is a function whose DOMAIN is its keys; a str is a tuple of      *)
(* characters (a name that is never taken apart is one TLA+ string).       *)

MaxRatioLen == 4    \* characters of a student_faculty_ratio string
MaxEntries == 2     \* entries of a test_scores_accepted, tuition or fees list

StrV(s) == [k |-> "str", v |-> s]
BoolV(b) == [k |-> "bool", v |-> b]
EmptyDict == <<>>

(* dict.get(key, default) *)
Get(d, key, default) == IF key \in DOMAIN d THEN d[key] ELSE default

(* d[key] = value *)
Put(d, key, value) == (key :> value) @@ d

(* The characters of the ratio strings; sup2 is the superscript two, for   *)
(* which str.isdigit() is true and int() raises ValueError.                *)
Chars == {"0", "1", "5", ":", "x", "sup2"}
Decimals == {"0", "1", "5"}
Strings == UNION {[1..n -> Chars] : n \in 0..MaxRatioLen}

(* str.split(":")[0]: the characters before the first colon. *)
RECURSIVE BeforeColon(_)
BeforeColon(s) ==
    IF s = <<>> \/ Head(s) = ":" THEN <<>> ELSE <<Head(s)>> \o BeforeColon(Tail(s))

(* str.isdigit() *)
isdigit(s) == s # <<>> /\ \A i \in 1..Len(s) : s[i] \in Decimals \cup {"sup2"}

DigitOf(c) == CASE c = "0" -> 0 [] c = "1" -> 1 [] c = "5" -> 5

(* int(s) for a str of decimal digits *)
RECURSIVE int(_)
int(s) == IF s = <<>> THEN 0 ELSE 10 * int(SubSeq(s, 1, Len(s) - 1)) + DigitOf(s[Len(s)])

(* Lines 99-106: the ratio is parsed inside try/except (ValueError,        *)
(* IndexError), so an int() that raises leaves metadata as it is.          *)
parse_ratio(metadata_, faculty_info) ==
    LET ratio_str == Get(faculty_info, "student_faculty_ratio", StrV(<<>>))
        truthy == ratio_str.k = "str" /\ ratio_str.v # <<>>
    IN  IF truthy /\ (\E i \in 1..Len(ratio_str.v) : ratio_str.v[i] = ":")
              /\ ratio_str.v # <<"0", ":", "1">>
        THEN LET student_part == BeforeColon(ratio_str.v)
             IN  IF isdigit(student_part)
                 THEN IF \A i \in 1..Len(student_part) : student_part[i] \in Decimals
                      THEN Put(metadata_, "student_faculty_ratio", IntV(int(student_part)))
                      ELSE metadata_
                 ELSE metadata_
        ELSE metadata_

(* Lines 43-54: the loop over test_scores_accepted. *)
RECURSIVE test_scores_loop(_, _)
test_scores_loop(metadata_, test_scores) ==
    IF test_scores = <<>> THEN metadata_
    ELSE LET score_info == Head(test_scores)
             test_name == Get(score_info, "test", NoneV)
             p25 == Get(score_info, "percentile_25", NoneV)
             p75 == Get(score_info, "percentile_75", NoneV)
             pre == IF test_name = StrV("SAT Critical Reading") THEN "sat_reading"
                    ELSE IF test_name = StrV("SAT Math") THEN "sat_math" ELSE ""
             m1 == IF pre = "sat_reading" /\ p25 # NoneV
                   THEN Put(metadata_, "sat_reading_25", p25)
                   ELSE IF pre = "sat_math" /\ p25 # NoneV
                   THEN Put(metadata_, "sat_math_25", p25) ELSE metadata_
             m2 == IF pre = "sat_reading" /\ p75 # NoneV
                   THEN Put(m1, "sat_reading_75", p75)
                   ELSE IF pre = "sat_math" /\ p75 # NoneV
                   THEN Put(m1, "sat_math_75", p75) ELSE m1
         IN  test_scores_loop(m2, Tail(test_scores))

(* Lines 60-70: the loop over tuition_and_fees.tuition. *)
RECURSIVE tuition_loop(_, _)
tuition_loop(metadata_, tuition) ==
    IF tuition = <<>> THEN metadata_
    ELSE LET tuition_info == Head(tuition)
             category == Get(tuition_info, "category", NoneV)
             amount == Get(tuition_info, "amount", NoneV)
             m1 == IF category = StrV("In-state") /\ amount # NoneV
                   THEN Put(metadata_, "tuition_in_state", amount)
                   ELSE IF category = StrV("Out-of-state") /\ amount # NoneV
                   THEN Put(metadata_, "tuition_out_of_state", amount)
                   ELSE metadata_
         IN  tuition_loop(m1, Tail(tuition))

(* Lines 73-78: the loop over tuition_and_fees.fees. *)
RECURSIVE fees_loop(_, _)
fees_loop(metadata_, fees) ==
    IF fees = <<>> THEN metadata_
    ELSE LET fee_info == Head(fees)
             m1 == IF Get(fee_info, "category", NoneV) = StrV("Room & board")
                       /\ Get(fee_info, "amount", NoneV) # NoneV
                   THEN Put(metadata_, "room_and_board", Get(fee_info, "amount", NoneV))
                   ELSE metadata_
         IN  fees_loop(m1, Tail(fees))

(* metadata[key] = d.get(field) when that is not None *)
PutUnlessNone(metadata_, key, d, field) ==
    IF Get(d, field, NoneV) # NoneV THEN Put(metadata_, key, Get(d, field, NoneV))
    ELSE metadata_

without_none_keeping_all(metadata_) == metadata_

(* Line 109: {k: v for k, v in metadata.items() if v is not None} *)
without_none(metadata_) ==
    [key \in {k_ \in DOMAIN metadata_ : metadata_[k_] # NoneV} |-> metadata_[key]]

extract_metadata_from_json(json_record_) ==
    LET location_contact ==
            Get(Get(json_record_, "location_contact", EmptyDict), "address", EmptyDict)
        admissions == Get(json_record_, "admissions", EmptyDict)
        applying_info == Get(admissions, "applying", EmptyDict)
        overall_admissions == Get(admissions, "overall", EmptyDict)
        test_scores == Get(admissions, "test_scores_accepted", <<>>)
        tuition_fees == Get(json_record_, "tuition_and_fees", EmptyDict)
        campus_life == Get(json_record_, "campus_life", EmptyDict)
        housing_info == Get(campus_life, "housing", EmptyDict)
        faculty_info == Get(json_record_, "faculty", EmptyDict)
        total_faculty == Get(faculty_info, "total_faculty", NoneV)
        m1 == [university_name |-> Get(json_record_, "university_name", NoneV),
               city |-> Get(location_contact, "city", NoneV),
               state |-> Get(location_contact, "state", NoneV),
               zip_code |-> Get(location_contact, "zip_code", NoneV)]
        m2 == PutUnlessNone(m1, "application_fee", applying_info, "application_fee")
        m3 == PutUnlessNone(m2, "avg_high_school_gpa", applying_info, "avg_high_school_gpa")
        m4 == PutUnlessNone(m3, "acceptance_rate", overall_admissions, "acceptance_rate")
        m5 == test_scores_loop(m4, test_scores)
        m6 == tuition_loop(m5, Get(tuition_fees, "tuition", <<>>))
        m7 == fees_loop(m6, Get(tuition_fees, "fees", <<>>))
        m8 == PutUnlessNone(m7, "percent_undergrads_in_housing", housing_info,
                            "percent_undergrads_in_college_housing")
        m9 == PutUnlessNone(m8, "has_college_housing", housing_info,
                            "college_owned_housing")
        m10 == IF total_faculty # NoneV /\ total_faculty.v > 0
               THEN Put(m9, "total_faculty", total_faculty) ELSE m9
    IN  without_none(parse_ratio(m10, faculty_info))

(* The records handed in.  Every dict with some of its keys missing and    *)
(* some None; a section is a dict or is missing (the converter that wrote  *)
(* the markdown of a record reads its sections the same way).              *)
DictsOver(keys, values) == UNION {[K -> values] : K \in SUBSET keys}

ListsOf(entries) == UNION {[1..n -> entries] : n \in 0..MaxEntries}

Merged(A, B) == {a @@ b : a \in A, b \in B}

Key(key, values) == {key :> value_ : value_ \in values}

OptKey(key, values) == {EmptyDict} \cup Key(key, values)

ScoreEntries ==
    Merged(Key("test", {StrV("SAT Critical Reading"), StrV("SAT Math"), StrV("ACT")}),
           Merged(OptKey("percentile_25", {NoneV, IntV(500), IntV(600)}),
                  Key("percentile_75", {NoneV, IntV(700)})))

TuitionEntries ==
    Merged(Key("category", {StrV("In-state"), StrV("Out-of-state"), StrV("Comprehensive")}),
           OptKey("amount", {NoneV, IntV(100), IntV(200)}))

FeeEntries ==
    Merged(Key("category", {StrV("Room & board"), StrV("Other")}),
           OptKey("amount", {NoneV, IntV(100), IntV(200)}))

Sections ==
    LET address == DictsOver({"city", "state", "zip_code"}, {NoneV, StrV("x")})
        applying == DictsOver({"application_fee", "avg_high_school_gpa"}, {NoneV, IntV(50)})
        overall == DictsOver({"acceptance_rate"}, {NoneV, IntV(50)})
        housing == Merged(OptKey("percent_undergrads_in_college_housing", {NoneV, IntV(50)}),
                          OptKey("college_owned_housing",
                                 {NoneV, BoolV(TRUE), BoolV(FALSE)}))
        faculty == Merged(OptKey("total_faculty", {NoneV, IntV(0), IntV(50)}),
                          OptKey("student_faculty_ratio",
                                 {NoneV, StrV(<<"1", "5", ":", "1">>)}))
    IN  {EmptyDict}
        \cup Key("location_contact", OptKey("address", address))
        \cup Key("admissions", OptKey("applying", applying))
        \cup Key("admissions", Key("overall", overall))
        \cup Key("tuition_and_fees", {EmptyDict})
        \cup Key("campus_life", OptKey("housing", housing))
        \cup Key("faculty", faculty)

(* Records with a list of entries, and with a ratio string. *)
ListSections ==
    Key("admissions", Key("test_scores_accepted", ListsOf(ScoreEntries)))
    \cup Key("tuition_and_fees", Key("tuition", ListsOf(TuitionEntries)))
    \cup Key("tuition_and_fees", Key("fees", ListsOf(FeeEntries)))
    \cup Key("faculty", Key("student_faculty_ratio", {StrV(s) : s \in Strings}))

(* A record of the dataset with all of its sections. *)
CompleteRecord ==
    [university_name |-> StrV("U"),
     location_contact |-> [address |-> [city |-> StrV("x"), state |-> StrV("x"),
                                        zip_code |-> StrV("x")]],
     admissions |-> [applying |-> [application_fee |-> IntV(50),
                                   avg_high_school_gpa |-> IntV(50)],
                     overall |-> [acceptance_rate |-> IntV(50)],
                     test_scores_accepted |->
                         <<[test |-> StrV("SAT Math"), percentile_25 |-> IntV(500),
                            percentile_75 |-> IntV(700)]>>],
     tuition_and_fees |-> [tuition |-> <<[category |-> StrV("In-state"),
                                          amount |-> IntV(100)]>>,
                           fees |-> <<[category |-> StrV("Room & board"),
                                       amount |-> IntV(200)]>>],
     campus_life |-> [housing |-> [college_owned_housing |-> BoolV(TRUE)]],
     faculty |-> [total_faculty |-> IntV(50),
                  student_faculty_ratio |-> StrV(<<"1", "5", ":", "1">>)]]

JsonRecords ==
    Merged(OptKey("university_name", {NoneV, StrV("U")}), Sections)
    \cup ListSections \cup {CompleteRecord}

NoMetadata == [state |-> "none", dict |-> EmptyDict]

InitExtract ==
    /\ json_record \in JsonRecords
    /\ metadata = NoMetadata
    /\ SparkleIdle /\ RegistryIdle /\ AggIdle /\ CallsIdle
    /\ LoaderIdle /\ StoreIdle /\ AppIdle /\ NestIdle /\ RetryIdle

(* metadata = extract_metadata_from_json(json_record) *)
ExtractMetadata ==
    /\ metadata.state = "none"
    /\ metadata' = [state |-> "returned", dict |-> extract_metadata_from_json(json_record)]
    /\ UNCHANGED <<json_record, coreVars, loaderVars, storeVars, appVars, nestVars,
                   retryVars>>

NextExtract == ExtractMetadata

SpecExtract == InitExtract /\ [][NextExtract]_vars


(* What the record holds for the field a metadata key is read from: the    *)
(* values found by walking the record, none when the field is missing.     *)
At(d, key) == IF key \in DOMAIN d THEN {d[key]} ELSE {}

Under(dicts, key) == UNION {At(d, key) : d \in dicts}

Items(lists) == UNION {{l[i] : i \in 1..Len(l)} : l \in lists}

Tagged(entries, tag, name) == {e \in entries : At(e, tag) = {StrV(name)}}

FieldValues(r, key) ==
    LET scores == Items(Under(At(r, "admissions"), "test_scores_accepted"))
        tuition == Items(Under(At(r, "tuition_and_fees"), "tuition"))
        fees == Items(Under(At(r, "tuition_and_fees"), "fees"))
        housing == Under(At(r, "campus_life"), "housing")
    IN  CASE key = "university_name" -> At(r, key)
          [] key \in {"city", "state", "zip_code"} ->
                Under(Under(At(r, "location_contact"), "address"), key)
          [] key \in {"application_fee", "avg_high_school_gpa"} ->
                Under(Under(At(r, "admissions"), "applying"), key)
          [] key = "acceptance_rate" -> Under(Under(At(r, "admissions"), "overall"), key)
          [] key = "sat_reading_25" ->
                Under(Tagged(scores, "test", "SAT Critical Reading"), "percentile_25")
          [] key = "sat_reading_75" ->
                Under(Tagged(scores, "test", "SAT Critical Reading"), "percentile_75")
          [] key = "sat_math_25" -> Under(Tagged(scores, "test", "SAT Math"), "percentile_25")
          [] key = "sat_math_75" -> Under(Tagged(scores, "test", "SAT Math"), "percentile_75")
          [] key = "tuition_in_state" ->
                Under(Tagged(tuition, "category", "In-state"), "amount")
          [] key = "tuition_out_of_state" ->
                Under(Tagged(tuition, "category", "Out-of-state"), "amount")
          [] key = "room_and_board" -> Under(Tagged(fees, "category", "Room & board"), "amount")
          [] key = "percent_undergrads_in_housing" ->
                Under(housing, "percent_undergrads_in_college_housing")
          [] key = "has_college_housing" -> Under(housing, "college_owned_housing")
          [] key \in {"total_faculty", "student_faculty_ratio"} ->
                Under(At(r, "faculty"), key)

MetadataKeys ==
    {"university_name", "city", "state", "zip_code", "application_fee",
     "avg_high_school_gpa", "acceptance_rate", "sat_reading_25", "sat_reading_75",
     "sat_math_25", "sat_math_75", "tuition_in_state", "tuition_out_of_state",
     "room_and_board", "percent_undergrads_in_housing", "has_college_housing",
     "total_faculty", "student_faculty_ratio"}

(* No key is None; a field the record lacks or holds as None gives no key. *)
NoneFree(r, m) ==
    /\ DOMAIN m \subseteq MetadataKeys
    /\ \A key \in DOMAIN m : m[key] # NoneV
    /\ \A key \in MetadataKeys : FieldValues(r, key) \subseteq {NoneV} => key \notin DOMAIN m
    /\ r = EmptyDict => m = EmptyDict
    /\ (DOMAIN r = {"university_name"} /\ r["university_name"] # NoneV)
           => DOMAIN m = {"university_name"}

(* C23: the returned dictionary has no None value, no key for a field that *)
(* is missing or None, and every key it has carries the record's value for *)
(* that field.                                                             *)
C23_RecordValues ==
    metadata.state = "returned" =>
        /\ NoneFree(json_record, metadata.dict)
        /\ \A key \in DOMAIN metadata.dict :
               metadata.dict[key] \in FieldValues(json_record, key)

(* C23, amended: as above, but student_faculty_ratio carries the integer   *)
(* written before the colon of the record's ratio string, not the string.  *)
C23_RecordValuesButRatio ==
    metadata.state = "returned" =>
        /\ NoneFree(json_record, metadata.dict)
        /\ \A key \in DOMAIN metadata.dict :
               IF key = "student_faculty_ratio"
               THEN \E s \in FieldValues(json_record, key) :
                        /\ s.k = "str"
                        /\ metadata.dict[key] = IntV(int(BeforeColon(s.v)))
               ELSE metadata.dict[key] \in FieldValues(json_record, key)

C23_Witness ==
    /\ metadata.state = "returned"
    /\ At(json_record, "university_name") = {NoneV}
    /\ "student_faculty_ratio" \in DOMAIN metadata.dict
    /\ "university_name" \notin DOMAIN metadata.dict

(* The ratio string of the record, "" when it has none. *)
RatioOf(r) ==
    LET found == Under(At(r, "faculty"), "student_faculty_ratio")
    IN  IF found = {} \/ found = {NoneV} THEN <<>> ELSE (CHOOSE s \in found : TRUE).v

(* <digits>:<rest> with a student count that is not zero *)
CountedRatio(s) ==
    \E i \in 2..Len(s) :
        /\ s[i] = ":"
        /\ \A j \in 1..(i - 1) : s[j] \in Decimals
        /\ int(SubSeq(s, 1, i - 1)) # 0

(* C24: student_faculty_ratio is emitted only for a string <digits>:<rest> *)
(* whose student count is not zero, and then as that count; "0:1", a       *)
(* string without a colon or with a non-digit student part, and the empty  *)
(* string give no key.                                                     *)
C24_RatioParsing ==
    metadata.state = "returned" =>
        LET s == RatioOf(json_record)
            m == metadata.dict
        IN  /\ "student_faculty_ratio" \in DOMAIN m =>
                   /\ CountedRatio(s)
                   /\ m["student_faculty_ratio"] = IntV(int(BeforeColon(s)))
            /\ s = <<"1", "5", ":", "1">> =>
                   /\ "student_faculty_ratio" \in DOMAIN m
                   /\ m["student_faculty_ratio"] = IntV(15)
            /\ (\/ s = <<"0", ":", "1">>
                \/ s = <<>>
                \/ \A i \in 1..Len(s) : s[i] # ":"
                \/ \E j \in 1..Len(BeforeColon(s)) : BeforeColon(s)[j] \notin Decimals)
                   => "student_faculty_ratio" \notin DOMAIN m


----------------------------------------------------------------------------
(* chatbot/components/data_loader.py: load_university_documents.           *)
(* A page_content is a tuple of pieces: plain text, or the text            *)
(* **Document ID:** `id` with the characters written between the           *)
(* backticks.                                                              *)

MaxDocs == 2        \* markdown files in the directory

Text == [piece |-> "text", id |-> <<>>]
IdLine(s) == [piece |-> "id", id |-> s]

(* str.strip() *)
RECURSIVE lstrip(_)
lstrip(s) == IF s # <<>> /\ Head(s) = " " THEN lstrip(Tail(s)) ELSE s

RECURSIVE rstrip(_)
rstrip(s) ==
    IF s # <<>> /\ s[Len(s)] = " " THEN rstrip(SubSeq(s, 1, Len(s) - 1)) ELSE s

strip(s) == rstrip(lstrip(s))

RECURSIVE extract_document_id_unstripped(_)
extract_document_id_unstripped(content) ==
    IF content = <<>> THEN <<>>
    ELSE IF Head(content).piece = "id" /\ Head(content).id # <<>>
         THEN Head(content).id
         ELSE extract_document_id_unstripped(Tail(content))

(* re.search of the pattern, whose group takes one or more characters that *)
(* are no backtick: the first piece that matches gives group(1).strip().   *)
RECURSIVE extract_document_id_from_content(_)
extract_document_id_from_content(content) ==
    IF content = <<>> THEN <<>>
    ELSE IF Head(content).piece = "id" /\ Head(content).id # <<>>
         THEN strip(Head(content).id)
         ELSE extract_document_id_from_content(Tail(content))

(* peterson_data.json: the universities list. *)
Universities == <<CompleteRecord, EmptyDict, [university_name |-> StrV("U")],
                  [faculty |-> [total_faculty |-> IntV(0)]]>>

(* id_mapping.json when it can be read: unique id -> json_index (from 0).  *)
MappingFile ==
    (<<"a">> :> 0) @@ (<<"b">> :> 1) @@ (<<"a", "b">> :> 2) @@ (<<"b", "a">> :> 3)
    @@ (<<"a", "a">> :> 4) @@ (<<"b", "b">> :> 0 - 1)

(* lookup_university_by_id: {} when the mapping cannot be read, when the   *)
(* id is not in it, and when its index is outside the list.                *)
lookup_university_by_id(unique_id, mapping) ==
    IF ~mapping.readable THEN EmptyDict
    ELSE IF unique_id \notin DOMAIN mapping.ids THEN EmptyDict
    ELSE LET json_index == mapping.ids[unique_id]
         IN  IF 0 <= json_index /\ json_index < Len(Universities)
             THEN Universities[json_index + 1]
             ELSE EmptyDict

(* The body of the loop of load_university_documents for one document:     *)
(* the document with its metadata, and whether it counts as matched.       *)
process_doc(md_doc, mapping) ==
    LET document_id == extract_document_id_from_content(md_doc.page_content)
        json_record_ == lookup_university_by_id(document_id, mapping)
    IN  IF document_id # <<>>
        THEN IF json_record_ # EmptyDict
             THEN [doc |-> [md_doc EXCEPT !.metadata =
                               Put(extract_metadata_from_json(json_record_) @@ @,
                                   "document_id", StrV(document_id))],
                   matched |-> 1]
             ELSE [doc |-> [md_doc EXCEPT !.metadata = Put(@, "document_id", StrV(document_id))],
                   matched |-> 0]
        ELSE [doc |-> md_doc, matched |-> 0]

load_university_documents(docs, mapping) ==
    LET done == [i \in 1..Len(docs) |-> process_doc(docs[i], mapping)]
        matched_count == Cardinality({i \in 1..Len(docs) : done[i].matched = 1})
    IN  [state |-> "returned",
         processed_docs |-> [i \in 1..Len(docs) |-> done[i].doc],
         matched_count |-> matched_count,
         unmatched_count |-> Len(docs) - matched_count]

(* The files of the directory as TextLoader loads them. *)
Ids == {<<"a">>, <<"b">>, <<"c">>, <<" ">>, <<" ", "a">>, <<"b", " ">>, <<"a", "b">>,
        <<"b", "a">>, <<"a", "a">>, <<"b", "b">>, <<" ", " ">>}

Contents ==
    {<<>>, <<Text>>}
    \cup {<<IdLine(s)>> : s \in Ids}
    \cup {<<Text, IdLine(<<"a">>)>>, <<IdLine(<<>>), IdLine(<<"b">>)>>,
          <<IdLine(<<"c">>), IdLine(<<"a">>)>>, <<IdLine(<<" ">>), IdLine(<<"a">>)>>}

LoadedDocs ==
    UNION {[1..n -> {[page_content |-> c, metadata |-> [source |-> StrV("md")]] :
                        c \in Contents}] : n \in 0..MaxDocs}

NotLoaded == [state |-> "none"]

InitLoader ==
    /\ markdown_docs \in LoadedDocs
    /\ id_mapping \in {[readable |-> TRUE, ids |-> MappingFile],
                       [readable |-> FALSE, ids |-> EmptyDict]}
    /\ processed = NotLoaded
    /\ SparkleIdle /\ RegistryIdle /\ AggIdle /\ CallsIdle
    /\ ExtractIdle /\ StoreIdle /\ AppIdle /\ NestIdle /\ RetryIdle

(* processed_docs = load_university_documents() *)
LoadUniversityDocuments ==
    /\ processed.state = "none"
    /\ processed' = load_university_documents(markdown_docs, id_mapping)
    /\ UNCHANGED <<markdown_docs, id_mapping, coreVars, extractVars, storeVars, appVars,
                   nestVars, retryVars>>

NextLoader == LoadUniversityDocuments

SpecLoader == InitLoader /\ [][NextLoader]_vars

(* The id written in a content: what stands between the first backticks    *)
(* that hold something, without the blanks around it.                      *)
IdWritten(content) ==
    LET holds == {i \in 1..Len(content) : content[i].piece = "id" /\ content[i].id # <<>>}
    IN  IF holds = {} THEN <<>>
        ELSE LET first == CHOOSE i \in holds : \A j \in holds : i <= j
                 chars == content[first].id
                 inked == {i \in 1..Len(chars) : chars[i] # " "}
             IN  IF inked = {} THEN <<>>
                 ELSE SubSeq(chars, CHOOSE i \in inked : \A j \in inked : i <= j,
                             CHOOSE i \in inked : \A j \in inked : i >= j)

(* The record the mapping and the list hold for an id, {} when none. *)
RecordOf(id) ==
    IF id_mapping.readable /\ id \in DOMAIN id_mapping.ids
          /\ id_mapping.ids[id] + 1 \in 1..Len(Universities)
    THEN Universities[id_mapping.ids[id] + 1]
    ELSE EmptyDict

(* C22: one output document per loaded document, in load order;            *)
(* document_id is set, to the extracted id, exactly when the content has   *)
(* one; the fields extracted from the JSON record are in the metadata      *)
(* exactly when a non-empty record was found; matched + unmatched is the   *)
(* number of loaded documents.                                             *)
C22_OnePerDocument ==
    processed.state = "returned" =>
        /\ Len(processed.processed_docs) = Len(markdown_docs)
        /\ processed.matched_count + processed.unmatched_count = Len(markdown_docs)
        /\ \A i \in 1..Len(markdown_docs) :
              LET md_in == markdown_docs[i]
                  md_out == processed.processed_docs[i]
                  id == IdWritten(md_in.page_content)
                  fields == extract_metadata_from_json(RecordOf(id))
              IN  /\ md_out.page_content = md_in.page_content
                  /\ md_out.metadata["source"] = md_in.metadata["source"]
                  /\ ("document_id" \in DOMAIN md_out.metadata) <=> (id # <<>>)
                  /\ id # <<>> => md_out.metadata["document_id"] = StrV(id)
                  /\ RecordOf(id) # EmptyDict =>
                        \A key \in DOMAIN fields : md_out.metadata[key] = fields[key]
                  /\ RecordOf(id) = EmptyDict =>
                        DOMAIN md_out.metadata \cap MetadataKeys = {}
        /\ processed.matched_count =
               Cardinality({i \in 1..Len(markdown_docs) :
                               RecordOf(IdWritten(markdown_docs[i].page_content)) # EmptyDict})

C22_Witness ==
    /\ processed.state = "returned"
    /\ Len(markdown_docs) = 2
    /\ processed.matched_count = 1
    /\ "document_id" \notin DOMAIN processed.processed_docs[1].metadata
    /\ "city" \in DOMAIN processed.processed_docs[2].metadata


----------------------------------------------------------------------------
(* chatbot/components/vectorstore.py.  The persist directory is absent, or *)
(* present with the documents of its collection (their number); a Chroma   *)
(* object reads and writes the collection of the directory.                *)

MaxStored == 6      \* documents a collection can hold
MaxBatch == 3       \* documents handed to one call

Absent == [exists |-> FALSE, count |-> 0]
Present(n) == [exists |-> TRUE, count |-> n]

(* documents: None, or a list *)
NoDocuments == [given |-> FALSE, docs |-> <<>>]
Documents(l) == [given |-> TRUE, docs |-> l]
DocumentLists == {Documents([i \in 1..n |-> i]) : n \in 0..MaxBatch}

rmtree_leaving_files(dir) == dir

(* shutil.rmtree(dir) *)
rmtree(dir) == Absent

(* persist_path.mkdir(parents=True, exist_ok=True) *)
mkdir(dir) == IF dir.exists THEN dir ELSE Present(0)

(* Chroma(persist_directory=...): opens the collection, creating the       *)
(* directory and an empty collection where there is none.                  *)
Chroma(dir) == IF dir.exists THEN dir ELSE Present(0)

(* vectorstore.add_documents(documents) *)
add_documents(dir, docs) == Present(Chroma(dir).count + Len(docs))

(* Chroma.from_documents(documents, persist_directory=...) *)
from_documents(dir, docs) == add_documents(Chroma(dir), docs)

(* get_vectorstore(documents, recreate): the directory afterwards, and     *)
(* whether a store was returned or ValueError raised.                      *)
get_vectorstore(dir, documents, recreate) ==
    LET made == IF ~dir.exists THEN mkdir(dir) ELSE dir
        db_exists0 == made.exists
        wiped == IF recreate /\ db_exists0 THEN rmtree(made) ELSE made
        db_exists == IF recreate /\ db_exists0 THEN FALSE ELSE db_exists0
        truthy == documents.given /\ documents.docs # <<>>
    IN  IF truthy /\ (recreate \/ ~db_exists)
        THEN [dir |-> from_documents(wiped, documents.docs), raised |-> "no"]
        ELSE IF db_exists
        THEN [dir |-> IF truthy /\ ~recreate
                      THEN add_documents(Chroma(wiped), documents.docs)
                      ELSE Chroma(wiped),
              raised |-> "no"]
        ELSE IF ~documents.given /\ ~db_exists
        THEN [dir |-> wiped, raised |-> "ValueError"]
        ELSE [dir |-> Chroma(wiped), raised |-> "no"]

NoReturn ==
    [call |-> "none", raised |-> "no", value |-> FALSE, before |-> Absent,
     documents |-> NoDocuments, recreate |-> FALSE]

InitStore ==
    /\ persist_dir \in {Absent} \cup {Present(n) : n \in 0..MaxStored}
    /\ vectorstore = [state |-> "none"]
    /\ returned = NoReturn
    /\ SparkleIdle /\ RegistryIdle /\ AggIdle /\ CallsIdle
    /\ ExtractIdle /\ LoaderIdle /\ AppIdle /\ NestIdle /\ RetryIdle

(* vectorstore = get_vectorstore(documents, recreate) *)
GetVectorstore(documents, recreate) ==
    LET r == get_vectorstore(persist_dir, documents, recreate)
    IN  /\ r.dir.count <= MaxStored
        /\ persist_dir' = r.dir
        /\ vectorstore' =
               IF r.raised = "no" THEN [state |-> "open"]
               ELSE IF vectorstore.state = "open" /\ ~r.dir.exists
                    THEN [state |-> "stale"] ELSE vectorstore
        /\ returned' = [call |-> "get_vectorstore", raised |-> r.raised, value |-> FALSE,
                        before |-> persist_dir, documents |-> documents,
                        recreate |-> recreate]
        /\ UNCHANGED <<coreVars, extractVars, loaderVars, appVars, nestVars, retryVars>>

(* add_documents_to_vectorstore(vectorstore, documents) *)
AddDocumentsToVectorstore(documents) ==
    /\ vectorstore.state = "open"
    /\ persist_dir.count + Len(documents.docs) <= MaxStored
    /\ persist_dir' = IF documents.docs = <<>> THEN persist_dir
                      ELSE add_documents(persist_dir, documents.docs)
    /\ returned' = [call |-> "add_documents_to_vectorstore", raised |-> "no",
                    value |-> FALSE, before |-> persist_dir, documents |-> documents,
                    recreate |-> FALSE]
    /\ UNCHANGED <<vectorstore, coreVars, extractVars, loaderVars, appVars, nestVars,
                   retryVars>>

(* delete_vectorstore(persist_dir); removed is whether shutil.rmtree       *)
(* succeeded (it is tried only when the directory exists).                 *)
DeleteVectorstore(removed) ==
    /\ persist_dir.exists \/ removed
    /\ persist_dir' = IF persist_dir.exists /\ removed THEN rmtree(persist_dir)
                      ELSE persist_dir
    /\ vectorstore' = IF vectorstore.state = "open" /\ persist_dir.exists /\ removed
                      THEN [state |-> "stale"] ELSE vectorstore
    /\ returned' = [call |-> "delete_vectorstore", raised |-> "no",
                    value |-> (~persist_dir.exists \/ removed), before |-> persist_dir,
                    documents |-> NoDocuments, recreate |-> FALSE]
    /\ UNCHANGED <<coreVars, extractVars, loaderVars, appVars, nestVars, retryVars>>

NextStore ==
    \/ \E documents \in DocumentLists \cup {NoDocuments}, recreate \in BOOLEAN :
           GetVectorstore(documents, recreate)
    \/ \E documents \in DocumentLists : AddDocumentsToVectorstore(documents)
    \/ \E removed \in BOOLEAN : DeleteVectorstore(removed)

SpecStore == InitStore /\ [][NextStore]_vars

(* C25: after get_vectorstore(D, recreate=True) the store holds |D|        *)
(* documents whatever was persisted; add_documents_to_vectorstore(A)       *)
(* raises the count by |A|; after delete_vectorstore returned True the     *)
(* directory is gone, and it returns True when there was none.             *)
C25_CountTracks ==
    /\ (returned.call = "get_vectorstore" /\ returned.recreate /\ returned.documents.given)
           => /\ returned.raised = "no"
              /\ vectorstore.state = "open"
              /\ persist_dir = Present(Len(returned.documents.docs))
    /\ returned.call = "add_documents_to_vectorstore"
           => /\ persist_dir.exists
              /\ persist_dir.count = returned.before.count + Len(returned.documents.docs)
    /\ returned.call = "delete_vectorstore"
           => /\ returned.value => ~persist_dir.exists
              /\ ~returned.before.exists => returned.value

C25_Witness ==
    /\ returned.call = "get_vectorstore" /\ returned.recreate
    /\ returned.before.exists /\ returned.before.count = 3
    /\ Len(returned.documents.docs) = 2

(* C26: get_vectorstore with no documents, when no ChromaDB exists at the  *)
(* persist directory, raises ValueError, for recreate False and True.      *)
C26_NothingToLoad ==
    (returned.call = "get_vectorstore" /\ ~returned.documents.given
        /\ ~returned.before.exists)
        => returned.raised = "ValueError"


----------------------------------------------------------------------------
(* chatbot/app.py: the chainlit handlers.  Handlers run on one event loop: *)
(* a handler runs alone from one await of a message send to the next, and  *)
(* another handler may run while it is suspended there.                    *)
(* initialize_vectorstore has no await of its own, so awaiting it runs it  *)
(* from its first line to its return without a suspension.                 *)

MaxHandlers == 3    \* handler invocations in the life of the process

None == 0           \* db_vectorstore = None; a store object is its number

(* initialize_vectorstore() without the test of lines 25-26. *)
initialize_vectorstore_unchecked(db, initialized, loads, ok) ==
    IF ok
    THEN [db |-> loads + 1, initialized |-> TRUE, loaded |-> TRUE, raised |-> FALSE]
    ELSE [db |-> db, initialized |-> initialized, loaded |-> FALSE, raised |-> TRUE]

(* initialize_vectorstore(): returns at once when the flag is set; else    *)
(* get_vectorstore (after load_university_documents when there is no       *)
(* directory yet) returns a store (ok), which is kept and the flag set, or *)
(* something raises, which is raised again with the globals as they were.  *)
initialize_vectorstore(db, initialized, loads, ok) ==
    IF initialized
    THEN [db |-> db, initialized |-> initialized, loaded |-> FALSE, raised |-> FALSE]
    ELSE IF ok
    THEN [db |-> loads + 1, initialized |-> TRUE, loaded |-> TRUE, raised |-> FALSE]
    ELSE [db |-> db, initialized |-> initialized, loaded |-> FALSE, raised |-> TRUE]

needs_initialization_never(db, initialized) == FALSE

(* main, line 143: if not _vectorstore_initialized or db_vectorstore is None *)
needs_initialization(db, initialized) == ~initialized \/ db = None

Handler(kind) ==
    [kind |-> kind, pc |-> "arrived", saw |-> "unchecked", called |-> FALSE,
     loaded |-> FALSE, failed |-> FALSE, retrieved |-> FALSE, sent |-> <<>>]

InitApp ==
    /\ db_vectorstore = None
    /\ vectorstore_initialized = FALSE
    /\ handlers = <<>>
    /\ served = [loads |-> 0, failures |-> 0, blind |-> FALSE]
    /\ SparkleIdle /\ RegistryIdle /\ AggIdle /\ CallsIdle
    /\ ExtractIdle /\ LoaderIdle /\ StoreIdle /\ NestIdle /\ RetryIdle

(* chainlit calls a handler for a new chat, a resumed chat or a message. *)
Arrive(kind) ==
    /\ Len(handlers) < MaxHandlers
    /\ handlers' = Append(handlers, Handler(kind))
    /\ UNCHANGED <<db_vectorstore, vectorstore_initialized, served, coreVars,
                   extractVars, loaderVars, storeVars, nestVars, retryVars>>

(* What a handler that awaits initialize_vectorstore() does to the globals *)
(* and to its own record.                                                  *)
AwaitInitialize(h, ok, on_raise, on_return, pc_raise, pc_return) ==
    LET r == initialize_vectorstore(db_vectorstore, vectorstore_initialized,
                                    served.loads, ok)
    IN  /\ db_vectorstore' = r.db
        /\ vectorstore_initialized' = r.initialized
        /\ served' = [served EXCEPT
                         !.loads = IF r.loaded THEN @ + 1 ELSE @,
                         !.failures = IF r.raised /\ @ < MaxHandlers THEN @ + 1 ELSE @]
        /\ handlers' = [handlers EXCEPT
                           ![h].called = TRUE,
                           ![h].loaded = r.loaded,
                           ![h].failed = r.raised,
                           ![h].sent = @ \o (IF r.raised THEN on_raise ELSE on_return),
                           ![h].pc = IF r.raised THEN pc_raise ELSE pc_return]

Resume(h, message, at) ==
    /\ handlers' = [handlers EXCEPT ![h].sent = @ \o message, ![h].pc = at]
    /\ UNCHANGED <<db_vectorstore, vectorstore_initialized, served>>

(* on_chat_start, from one await to the next. *)
OnChatStart(h, ok) ==
    /\ handlers[h].kind = "start"
    /\ CASE handlers[h].pc = "arrived" -> ok /\ Resume(h, <<"welcome">>, "welcomed")
         [] handlers[h].pc = "welcomed" ->
                /\ ok
                /\ handlers' = [handlers EXCEPT
                       ![h].saw = IF vectorstore_initialized THEN "set" ELSE "unset",
                       ![h].sent = @ \o (IF vectorstore_initialized
                                         THEN <<"ready">> ELSE <<"loading">>),
                       ![h].pc = IF vectorstore_initialized THEN "ready" ELSE "loading"]
                /\ UNCHANGED <<db_vectorstore, vectorstore_initialized, served>>
         [] handlers[h].pc = "loading" ->
                AwaitInitialize(h, ok, <<"error">>, <<"ready">>, "reported", "ready")
         [] handlers[h].pc \in {"ready", "reported"} -> ok /\ Resume(h, <<>>, "done")
         [] OTHER -> FALSE
    /\ UNCHANGED <<coreVars, extractVars, loaderVars, storeVars, nestVars, retryVars>>

(* on_chat_resume: it has no await but that of initialize_vectorstore, and *)
(* an exception of that leaves the handler.                                *)
OnChatResume(h, ok) ==
    /\ handlers[h].kind = "resume"
    /\ handlers[h].pc = "arrived"
    /\ IF ~vectorstore_initialized
       THEN AwaitInitialize(h, ok, <<>>, <<>>, "done", "done")
       ELSE ok /\ Resume(h, <<>>, "done")
    /\ UNCHANGED <<coreVars, extractVars, loaderVars, storeVars, nestVars, retryVars>>

(* main, from one await to the next.  With the store in place the          *)
(* retriever is made and invoked before the first await.                   *)
Main(h, ok) ==
    /\ handlers[h].kind = "message"
    /\ CASE handlers[h].pc = "arrived" ->
                /\ ok
                /\ IF needs_initialization(db_vectorstore, vectorstore_initialized)
                   THEN /\ handlers' = [handlers EXCEPT
                               ![h].saw = "unset",
                               ![h].sent = @ \o <<"warning">>,
                               ![h].pc = "warned"]
                        /\ served' = served
                   ELSE /\ handlers' = [handlers EXCEPT
                               ![h].saw = "set",
                               ![h].retrieved = TRUE,
                               ![h].sent = @ \o <<"answer">>,
                               ![h].pc = "told"]
                        /\ served' = [served EXCEPT
                               !.blind = @ \/ ~vectorstore_initialized
                                           \/ db_vectorstore = None]
                /\ UNCHANGED <<db_vectorstore, vectorstore_initialized>>
         [] handlers[h].pc = "warned" ->
                AwaitInitialize(h, ok, <<"failed">>, <<"retry">>, "told", "told")
         [] handlers[h].pc = "told" -> ok /\ Resume(h, <<>>, "done")
         [] OTHER -> FALSE
    /\ UNCHANGED <<coreVars, extractVars, loaderVars, storeVars, nestVars, retryVars>>

NextApp ==
    \/ \E kind \in {"start", "resume", "message"} : Arrive(kind)
    \/ \E h \in 1..Len(handlers), ok \in BOOLEAN : OnChatStart(h, ok)
    \/ \E h \in 1..Len(handlers), ok \in BOOLEAN : OnChatResume(h, ok)
    \/ \E h \in 1..Len(handlers), ok \in BOOLEAN : Main(h, ok)

SpecApp == InitApp /\ [][NextApp]_vars

(* C27: over every interleaving of the handlers get_vectorstore completes  *)
(* successfully at most once; once the flag is true it never becomes false *)
(* and db_vectorstore is never replaced.                                   *)
C27_InitializedOnce ==
    /\ [](served.loads <= 1)
    /\ [][vectorstore_initialized =>
             (vectorstore_initialized' /\ db_vectorstore' = db_vectorstore)]_vars

(* Two handlers found the flag unset, one loaded the store, the other then *)
(* called initialize_vectorstore and loaded nothing.                       *)
C27_Witness ==
    \E h1, h2 \in 1..Len(handlers) :
        /\ handlers[h1].saw = "unset" /\ handlers[h1].loaded
        /\ handlers[h2].saw = "unset" /\ handlers[h2].called
        /\ ~handlers[h2].loaded /\ ~handlers[h2].failed
        /\ served.loads = 1

(* C28: no retrieval runs against a store that is not initialized; a       *)
(* message that arrives then has initialization attempted and gets no      *)
(* retriever, only the word to retry or the failure; a failed              *)
(* initialization leaves the flag false, and every later event that finds  *)
(* it false attempts initialization again.                                 *)
C28_NoBlindRetrieval ==
    /\ ~served.blind
    /\ \A h \in 1..Len(handlers) :
          LET it == handlers[h]
          IN  /\ (it.kind = "message" /\ it.saw = "unset") =>
                     /\ ~it.retrieved
                     /\ it.pc \in {"told", "done"} =>
                            /\ it.called
                            /\ it.sent \in {<<"warning", "retry">>, <<"warning", "failed">>}
                            /\ it.failed <=> it.sent = <<"warning", "failed">>
              /\ (it.saw = "unset" /\ it.pc = "done") => it.called
              /\ (it.kind = "resume" /\ it.pc = "done" /\ ~it.called) => vectorstore_initialized
              /\ it.failed => it.called /\ ~it.loaded
    /\ served.failures > 0 /\ served.loads = 0 => ~vectorstore_initialized
    /\ vectorstore_initialized <=> db_vectorstore # None

(* After a failed initialization a later message finds the flag unset and  *)
(* initializes the store.                                                  *)
C28_Witness ==
    \E h1, h2 \in 1..Len(handlers) :
        /\ h1 < h2
        /\ handlers[h1].kind = "message" /\ handlers[h1].failed
        /\ handlers[h1].sent = <<"warning", "failed">>
        /\ handlers[h2].kind = "message" /\ handlers[h2].saw = "unset"
        /\ handlers[h2].loaded /\ handlers[h2].pc = "done"


----------------------------------------------------------------------------
(* utils.py: nest.  A DataFrame is its column names and its rows, each row *)
(* a dict from column name to cell; nest_df is the caller's object.        *)

Cell(i, c) == IntV(10 * i + (IF c = "a" THEN 1 ELSE 2))

NestFrames ==
    {[columns |-> cols,
      rows |-> [i \in 1..n |-> [c \in {cols[j] : j \in 1..Len(cols)} |-> Cell(i, c)]]] :
        cols \in {<<>>, <<"a">>, <<"a", "b">>}, n \in 0..MaxRows}

NestArgs ==
    [nested_column_name : {"", "n", "a"},
     columns_to_nest : {[str |-> FALSE, names |-> l] :
                           l \in {<<>>, <<"a">>, <<"a", "b">>, <<"a", "c">>, <<"c">>}}
                       \cup {[str |-> TRUE, names |-> <<"a">>]},
     drop_original : BOOLEAN,
     handle_missing : {"skip", "error", "fill", "drop"}]

ColumnsOf(l) == {l[i] : i \in 1..Len(l)}

(* [col for col in l if keep(col)] *)
RECURSIVE Keep(_, _)
Keep(l, S) ==
    IF l = <<>> THEN <<>>
    ELSE (IF Head(l) \in S THEN <<Head(l)>> ELSE <<>>) \o Keep(Tail(l), S)

(* df[col] = None for each col of missing, in order: a new column at the   *)
(* end for a name the frame has not, the cells replaced for one it has.    *)
RECURSIVE fill_missing(_, _)
fill_missing(df, missing) ==
    IF missing = <<>> THEN df
    ELSE LET col == Head(missing)
             filled == [columns |-> IF col \in ColumnsOf(df.columns) THEN df.columns
                                    ELSE Append(df.columns, col),
                        rows |-> [i \in 1..Len(df.rows) |-> (col :> NoneV) @@ df.rows[i]]]
         IN  fill_missing(filled, Tail(missing))

(* result_df[name] = values *)
set_column(df, name, values) ==
    [columns |-> IF name \in ColumnsOf(df.columns) THEN df.columns ELSE Append(df.columns, name),
     rows |-> [i \in 1..Len(df.rows) |-> (name :> values[i]) @@ df.rows[i]]]

(* result_df.drop(columns=...) *)
drop_columns(df, names) ==
    LET kept == Keep(df.columns, ColumnsOf(df.columns) \ names)
    IN  [columns |-> kept,
         rows |-> [i \in 1..Len(df.rows) |-> [c \in ColumnsOf(kept) |-> df.rows[i][c]]]]

NestRaised(df, error) == [df |-> df, out |-> [state |-> error, frame |-> <<>>]]

(* nest(df, ...): the caller's frame after the call, and what was returned *)
(* or raised.                                                              *)
nest(df, a) ==
    LET columns_to_nest == a.columns_to_nest.names
        missing_columns == Keep(columns_to_nest, ColumnsOf(columns_to_nest) \ ColumnsOf(df.columns))
        skipped == Keep(columns_to_nest, ColumnsOf(df.columns))
        nested_of(copy, cols) ==
            [i \in 1..Len(copy.rows) |->
                [k |-> "nested",
                 v |-> [c \in ColumnsOf(cols) \cap ColumnsOf(copy.columns) |-> copy.rows[i][c]]]]
        finish(copy, cols) ==
            LET with_nested == set_column(copy, a.nested_column_name, nested_of(copy, cols))
            IN  [df |-> copy,
                 out |-> [state |-> "returned",
                          frame |-> IF a.drop_original
                                    THEN drop_columns(with_nested,
                                             ColumnsOf(cols) \cap ColumnsOf(with_nested.columns))
                                    ELSE with_nested]]
    IN  IF df.columns = <<>> \/ df.rows = <<>> THEN NestRaised(df, "ValueError")
        ELSE IF a.nested_column_name = "" THEN NestRaised(df, "ValueError")
        ELSE IF a.nested_column_name \in ColumnsOf(df.columns) THEN NestRaised(df, "ValueError")
        ELSE IF columns_to_nest = <<>> THEN NestRaised(df, "ValueError")
        ELSE IF missing_columns = <<>> THEN finish(df, columns_to_nest)
        ELSE IF a.handle_missing = "error" THEN NestRaised(df, "KeyError")
        ELSE IF a.handle_missing = "skip"
        THEN IF skipped = <<>> THEN NestRaised(df, "ValueError")
             ELSE finish(df, skipped)
        ELSE IF a.handle_missing = "fill"
        THEN finish(fill_missing(df, missing_columns), columns_to_nest)
        ELSE NestRaised(df, "ValueError")

InitNest ==
    /\ nest_df \in NestFrames
    /\ nest_args \in NestArgs
    /\ nest_out = [state |-> "none", frame |-> <<>>]
    /\ SparkleIdle /\ RegistryIdle /\ AggIdle /\ CallsIdle
    /\ ExtractIdle /\ LoaderIdle /\ StoreIdle /\ AppIdle /\ RetryIdle

(* nest(nest_df, ...) is called. *)
Nest ==
    /\ nest_out.state = "none"
    /\ LET r == nest(nest_df, nest_args)
       IN  nest_df' = r.df /\ nest_out' = r.out
    /\ UNCHANGED <<nest_args, coreVars, extractVars, loaderVars, storeVars, appVars,
                   retryVars>>

NextNest == Nest

SpecNest == InitNest /\ [][NextNest]_vars

(* C29: nest leaves the caller's DataFrame as it was (same columns, same   *)
(* values) for every handle_missing and drop_original, whether it returns  *)
(* or raises.                                                              *)
C29_InputUnchanged == [][nest_df' = nest_df]_vars


----------------------------------------------------------------------------
(* The retry loops of the scrapers: download_file                          *)
(* (download_georgia_education_data.py) and process_url_with_retries       *)
(* (005_scrape_courses.py).  retry.outcomes holds what each attempt made   *)
(* so far met.                                                             *)

MaxRetries == 3     \* max_retries

(* What one pass of the loop body can meet.  download_file: the file was   *)
(* written and is not empty, it is empty, or the request or the write      *)
(* raised (every exception is caught inside the loop).                     *)
(* process_url_with_retries: scrape_university_courses returned a dict     *)
(* with a non-empty json (the file is then written, which works or raises  *)
(* OSError outside any try), or with json None or {}.                      *)
Outcomes(fn_) ==
    IF fn_ = "download_file"
    THEN {"downloaded", "empty_file", "http_403", "http_429", "http_error",
          "request_exception", "exception"}
    ELSE {"json_saved", "json_save_raised", "json_none", "json_empty"}

Succeeded == {"downloaded", "json_saved", "json_save_raised"}

InitRetry ==
    /\ retry \in [fn : {"download_file", "process_url_with_retries"},
                  max_retries : 0..MaxRetries,
                  outcomes : {<<>>}, pc : {"loop"}, success : {FALSE}]
    /\ SparkleIdle /\ RegistryIdle /\ AggIdle /\ CallsIdle
    /\ ExtractIdle /\ LoaderIdle /\ StoreIdle /\ AppIdle /\ NestIdle

(* One pass of `for attempt in range(max_retries)`: a success returns      *)
(* (download_file) or breaks to the return (process_url_with_retries), an  *)
(* exception of the file write leaves process_url_with_retries, and        *)
(* anything else goes on to the next pass.                                 *)
Attempt(outcome) ==
    /\ retry.pc = "loop"
    /\ Len(retry.outcomes) < retry.max_retries
    /\ outcome \in Outcomes(retry.fn)
    /\ retry' = [retry EXCEPT
                    !.outcomes = Append(@, outcome),
                    !.pc = IF outcome \in {"downloaded", "json_saved"} THEN "returned"
                           ELSE IF outcome = "json_save_raised" THEN "raised"
                           ELSE "loop",
                    !.success = outcome \in {"downloaded", "json_saved"}]
    /\ UNCHANGED <<coreVars, extractVars, loaderVars, storeVars, appVars, nestVars>>

(* The loop ran out: return (False, url, local_path), or the dict with     *)
(* success False.                                                          *)
ReturnFailure ==
    /\ retry.pc = "loop"
    /\ Len(retry.outcomes) = retry.max_retries
    /\ retry' = [retry EXCEPT !.pc = "returned", !.success = FALSE]
    /\ UNCHANGED <<coreVars, extractVars, loaderVars, storeVars, appVars, nestVars>>

NextRetry ==
    \/ \E outcome \in Outcomes("download_file") \cup Outcomes("process_url_with_retries") :
           Attempt(outcome)
    \/ ReturnFailure

(* The loop is straight-line code of one thread: it goes on while it can.  *)
SpecRetry == InitRetry /\ [][NextRetry]_vars /\ WF_vars(NextRetry)

RetryBounded ==
    /\ Len(retry.outcomes) <= retry.max_retries
    /\ \A i \in 1..(Len(retry.outcomes) - 1) : retry.outcomes[i] \notin Succeeded
    /\ (retry.outcomes # <<>> /\ retry.outcomes[Len(retry.outcomes)] \in Succeeded)
           => retry.pc = "returned" /\ retry.success
    /\ (retry.pc = "returned" /\ ~retry.success)
           => /\ Len(retry.outcomes) = retry.max_retries
              /\ \A i \in 1..Len(retry.outcomes) : retry.outcomes[i] \notin Succeeded
    /\ retry.pc # "raised"

(* C30: a retry loop makes at most max_retries attempts, stops at the      *)
(* first success and reports it, reports failure only after max_retries    *)
(* failed attempts, and always comes to return a result; it never raises.  *)
C30_RetryLoop == []RetryBounded /\ <>(retry.pc = "returned")

====
